---- MODULE Spec2Model ----
(***************************************************************************)
(* A model of the photomosaic rebuilder (src/lib/image.py, with its        *)
(* helpers in src/lib/utils.py): SourceImage (the grid over a raster, its  *)
(* per-block averages and its sorted lookup table) and OutputImage         *)
(* (build_image, the multi-pass compositor).                               *)
(*                                                                         *)
(* The sources are Python 2 (print statements, randint on int quotients):  *)
(* `/` between ints is floor division, written \div here.  Python lists    *)
(* are 0-based; the sequences below are 1-based, so list[k] is seq[k + 1], *)
(* while block indices stored as values keep Python's 0-based numbering.   *)
(*                                                                         *)
(* These specifications share the module:                                 *)
(*   SpecPartition  calculate_block_vars for the source image, on rasters  *)
(*                  of real size;                                          *)
(*   SpecHdr        build_image's hdr index j = int(current_scale * i) on  *)
(*                  block counts of real size, in IEEE-754 doubles;        *)
(*   SpecGrid       one SourceImage through calculate_block_vars,          *)
(*                  build_average_list and build_average_lut;              *)
(*   Spec           OutputImage.build_image over prepared grids;           *)
(*   SpecShape      build_image with source blocks that are not square;    *)
(*   SpecTwice      build_image called twice with the same draws;          *)
(*   SpecLut        build_average_lut with every algorithm string;         *)
(*   SpecStats      build_average_list on pixels, in IEEE-754 doubles;     *)
(*   SpecOverride   calculate_block_vars with width and height overrides.  *)
(***************************************************************************)
EXTENDS Integers, Sequences, FiniteSets, TLC

VARIABLES
    grid,          \* SpecPartition, SpecGrid: the SourceImage under construction
    hdrrun,        \* SpecHdr: one pass of build_image's index computation
    source_image,  \* Spec: build_image's source_image argument
    dest_image,    \* Spec: build_image's dest_image argument
    dest_med,      \* Spec: build_image's dest_med argument
    dest_high,     \* Spec: build_image's dest_high argument
    output         \* Spec: the OutputImage and the progress of build_image

vars == <<grid, hdrrun, source_image, dest_image, dest_med, dest_high, output>>

\* A variable a specification does not use holds this value throughout.
Unused == [phase |-> "unused"]

(***************************************************************************)
(* Bounds of the model.                                                    *)
(***************************************************************************)
\* SpecPartition: source rasters of width and height 1..MaxRaster.
MaxRaster == 100
\* SpecHdr: source rasters of width and height 1..MaxHdrRaster, destination
\* grids of 1..MaxHdrRows rows and 1..MaxHdrCols columns.
MaxHdrRaster == 2
MaxHdrRows == 11
MaxHdrCols == 23

(***************************************************************************)
(* Python float arithmetic (IEEE-754 binary64) on positive values.  A      *)
(* float is [bits, exp]: bits the 53 mantissa bits, most significant       *)
(* first, and the value is bits * 2^exp; zero has no bits.  Every          *)
(* operation rounds its exact result to nearest, ties to even.             *)
(***************************************************************************)
MantBits == 53
\* The exact results are held as sequences of base-2^LimbBits digits.
LimbBits == 8
Radix == 2 ^ LimbBits
\* Digits of a quotient's fraction: more than MantBits + 2 significant bits
\* for every divisor below 2^24.
DivLimbs == 10

RECURSIVE NatBits(_)
NatBits(k) == IF k = 0 THEN <<>> ELSE Append(NatBits(k \div 2), k % 2)

RECURSIVE BitsNat(_, _)
BitsNat(b, len) == IF len = 0 THEN 0 ELSE 2 * BitsNat(b, len - 1) + b[len]

LimbsToBits(limbs) ==
    [k \in 1..(LimbBits * Len(limbs)) |->
        (limbs[((k - 1) \div LimbBits) + 1]
            \div (2 ^ (LimbBits - 1 - ((k - 1) % LimbBits)))) % 2]

BitsToLimbs(bits) ==
    LET pad == (LimbBits - (Len(bits) % LimbBits)) % LimbBits
        b == [k \in 1..pad |-> 0] \o bits
    IN [j \in 1..(Len(b) \div LimbBits) |->
           BitsNat(SubSeq(b, (j - 1) * LimbBits + 1, j * LimbBits), LimbBits)]

\* bits without its leading zeros
Normalize(bits) ==
    IF \A k \in 1..Len(bits) : bits[k] = 0 THEN <<>>
    ELSE SubSeq(bits,
                CHOOSE k \in 1..Len(bits) :
                    bits[k] = 1 /\ \A h \in 1..(k - 1) : bits[h] = 0,
                Len(bits))

\* b + 1
IncBits(b) ==
    IF \A k \in 1..Len(b) : b[k] = 1 THEN <<1>> \o [k \in 1..Len(b) |-> 0]
    ELSE LET z == CHOOSE k \in 1..Len(b) :
                      b[k] = 0 /\ \A h \in (k + 1)..Len(b) : b[h] = 1
         IN [k \in 1..Len(b) |-> IF k < z THEN b[k] ELSE IF k = z THEN 1 ELSE 0]

FloatZero == [bits |-> <<>>, exp |-> 0]

\* The float nearest to bits * 2^exp (plus a nonzero tail below the last bit
\* when sticky), ties to even.
RoundBits(bits, exp, sticky) ==
    LET L == Len(bits) IN
    IF L = 0 THEN FloatZero
    ELSE IF L <= MantBits
    THEN [bits |-> bits \o [k \in 1..(MantBits - L) |-> 0],
          exp |-> exp - (MantBits - L)]
    ELSE LET keep == SubSeq(bits, 1, MantBits)
             guard == bits[MantBits + 1]
             rest == sticky \/ \E k \in (MantBits + 2)..L : bits[k] = 1
             up == guard = 1 /\ (rest \/ keep[MantBits] = 1)
             e == exp + (L - MantBits)
         IN IF ~up THEN [bits |-> keep, exp |-> e]
            ELSE IF Len(IncBits(keep)) > MantBits
                 THEN [bits |-> SubSeq(IncBits(keep), 1, MantBits), exp |-> e + 1]
                 ELSE [bits |-> IncBits(keep), exp |-> e]

RECURSIVE DivStep(_, _, _, _)
DivStep(rem, den, limbs, count) ==
    IF count = 0 THEN [limbs |-> limbs, sticky |-> rem # 0]
    ELSE DivStep((rem * Radix) % den, den,
                 Append(limbs, (rem * Radix) \div den), count - 1)

\* float(a) / float(d) for ints a >= 0, d > 0
FloatDiv(a, d) ==
    LET r == DivStep(a % d, d, <<>>, DivLimbs) IN
    RoundBits(Normalize(NatBits(a \div d) \o LimbsToBits(r.limbs)),
              -(LimbBits * DivLimbs), r.sticky)

RECURSIVE MulLimbs(_, _, _, _)
MulLimbs(limbs, len, k, carry) ==
    IF len = 0 THEN IF carry = 0 THEN <<>> ELSE <<carry>>
    ELSE Append(MulLimbs(limbs, len - 1, k, (limbs[len] * k + carry) \div Radix),
                (limbs[len] * k + carry) % Radix)

\* x * k for a float x and an int k >= 0 (k is converted to float exactly)
FloatMulInt(x, k) ==
    IF k = 0 \/ x.bits = <<>> THEN FloatZero
    ELSE RoundBits(
             Normalize(LimbsToBits(
                 MulLimbs(BitsToLimbs(x.bits), Len(BitsToLimbs(x.bits)), k, 0))),
             x.exp, FALSE)

\* float(a) for an int a >= 0
FloatOfInt(a) == FloatDiv(a, 1)

PadLeft(limbs, len) == [k \in 1..(len - Len(limbs)) |-> 0] \o limbs

\* a + b + carry for digit sequences of length len: len + 1 digits
RECURSIVE AddLimbs(_, _, _, _)
AddLimbs(a, b, len, carry) ==
    IF len = 0 THEN <<carry>>
    ELSE Append(AddLimbs(a, b, len - 1, (a[len] + b[len] + carry) \div Radix),
                (a[len] + b[len] + carry) % Radix)

\* a - b - borrow for digit sequences of length len, a >= b + borrow
RECURSIVE SubLimbs(_, _, _, _)
SubLimbs(a, b, len, borrow) ==
    IF len = 0 THEN <<>>
    ELSE Append(SubLimbs(a, b, len - 1,
                         IF a[len] - b[len] - borrow < 0 THEN 1 ELSE 0),
                (a[len] - b[len] - borrow + Radix) % Radix)

\* The digits of x as a multiple of 2^exp, exp <= x.exp
ShiftedLimbs(x, exp) == BitsToLimbs(x.bits \o [k \in 1..(x.exp - exp) |-> 0])

\* x + y for floats
FloatAdd(x, y) ==
    IF x.bits = <<>> THEN y
    ELSE IF y.bits = <<>> THEN x
    ELSE LET e == IF x.exp < y.exp THEN x.exp ELSE y.exp
             xb == ShiftedLimbs(x, e)
             yb == ShiftedLimbs(y, e)
             len == IF Len(xb) > Len(yb) THEN Len(xb) ELSE Len(yb)
         IN RoundBits(Normalize(LimbsToBits(
                          AddLimbs(PadLeft(xb, len), PadLeft(yb, len), len, 0))),
                      e, FALSE)

\* x - y for floats x >= y
FloatSub(x, y) ==
    IF y.bits = <<>> THEN x
    ELSE LET e == IF x.exp < y.exp THEN x.exp ELSE y.exp
             xb == ShiftedLimbs(x, e)
             yb == ShiftedLimbs(y, e)
             len == IF Len(xb) > Len(yb) THEN Len(xb) ELSE Len(yb)
         IN RoundBits(Normalize(LimbsToBits(
                          SubLimbs(PadLeft(xb, len), PadLeft(yb, len), len, 0))),
                      e, FALSE)

\* The digits of limbs / den, then the remainder's, count digits in all
RECURSIVE LongDiv(_, _, _, _, _)
LongDiv(limbs, den, rem, out, count) ==
    IF count = 0 THEN [limbs |-> out, sticky |-> rem # 0]
    ELSE LET cur == rem * Radix
                       + (IF Len(out) < Len(limbs) THEN limbs[Len(out) + 1]
                          ELSE 0)
         IN LongDiv(limbs, den, cur % den, Append(out, cur \div den), count - 1)

\* x / float(d) for a float x and an int d > 0
FloatDivInt(x, d) ==
    IF x.bits = <<>> THEN FloatZero
    ELSE LET limbs == BitsToLimbs(x.bits)
             r == LongDiv(limbs, d, 0, <<>>, Len(limbs) + DivLimbs)
         IN RoundBits(Normalize(LimbsToBits(r.limbs)),
                      x.exp - (LimbBits * DivLimbs), r.sticky)

\* x * y for floats: the product of x by each digit of y, summed
RECURSIVE MulAllLimbs(_, _, _)
MulAllLimbs(xlimbs, ylimbs, len) ==
    IF len = 0 THEN <<>>
    ELSE LET high == MulAllLimbs(xlimbs, ylimbs, len - 1) \o <<0>>
             low == MulLimbs(xlimbs, Len(xlimbs), ylimbs[len], 0)
             n == IF Len(high) > Len(low) THEN Len(high) ELSE Len(low)
         IN AddLimbs(PadLeft(high, n), PadLeft(low, n), n, 0)

FloatMul(x, y) ==
    IF x.bits = <<>> \/ y.bits = <<>> THEN FloatZero
    ELSE RoundBits(Normalize(LimbsToBits(
                       MulAllLimbs(BitsToLimbs(x.bits), BitsToLimbs(y.bits),
                                   Len(BitsToLimbs(y.bits))))),
                   x.exp + y.exp, FALSE)

\* int(x): truncation
FloatToInt(x) ==
    IF x.bits = <<>> \/ MantBits + x.exp <= 0 THEN 0
    ELSE BitsNat(x.bits, MantBits + x.exp)

(***************************************************************************)
(* SourceImage.calculate_block_vars                                        *)
(***************************************************************************)
Zeros(len) == [k \in 1..len |-> 0]

\* int(round(sqrt(p / q))) for ints p, q > 0: the r with
\* r - 1/2 <= sqrt(p / q) < r + 1/2.  (Python 2's round takes a half away
\* from zero, and in floats sqrt is within a few ulp of the exact root; for
\* the rasters of this model 4p/q is never within 1/q of an odd square.)
RoundSqrt(p, q) ==
    CHOOSE r \in 0..p :
        /\ 4 * p < (2 * r + 1) * (2 * r + 1) * q
        /\ r = 0 \/ (2 * r - 1) * (2 * r - 1) * q <= 4 * p

\* The tile target of the source grid.
TargetTiles == 256

\* rows = sqrt(256.0 / aspect), rounded, with aspect = width / height
SrcRows(width, height) == RoundSqrt(TargetTiles * height, width)

\* The mutant of SrcCols: cols taken from the rounded row count,
\* int(round(aspect * rows)) = floor(width * rows / height + 1/2).
SrcColsFromRoundedRows(width, height) ==
    (2 * width * SrcRows(width, height) + height) \div (2 * height)

\* cols = aspect * rows with rows still the unrounded root, then rounded:
\* aspect * sqrt(256 / aspect) = sqrt(256 * aspect).
SrcCols(width, height) == RoundSqrt(TargetTiles * width, height)

\* SourceImage.__init__ over a raster of width x height pixels.  phase,
\* user_block_size, the overrides, stats_calls and lut_calls (counted by
\* SpecRelut) are the model's record of the calls made.
NewSourceImage(width, height, is_non_uniform, is_detail) ==
    [phase |-> "new", width |-> width, height |-> height,
     user_block_size |-> 0, max_value |-> 0, stats_calls |-> 0, atype |-> <<>>,
     width_override |-> 0, height_override |-> 0, lut_calls |-> 0,
     is_non_uniform |-> is_non_uniform,
     is_detail |-> is_detail,
     block_size |-> 0,
     block_width |-> 0,
     block_height |-> 0,
     num_rows |-> 0,
     num_cols |-> 0,
     num_blocks |-> 0,
     row_list |-> <<>>,
     col_list |-> <<>>,
     avg_list |-> <<>>,
     avg_lut |-> <<>>]

\* The source branch (user_block_size = 0).  A zero row or column count makes
\* int(width / cols) or int(height / rows) raise ZeroDivisionError before any
\* field is assigned.
CalcBlockVarsSource(self) ==
    LET rows == SrcRows(self.width, self.height)
        cols == SrcCols(self.width, self.height)
    IN IF rows = 0 \/ cols = 0
       THEN [self EXCEPT !.phase = "error"]
       ELSE [self EXCEPT
                !.phase = "partitioned",
                !.block_width = self.width \div cols,
                !.block_height = self.height \div rows,
                !.num_rows = rows,
                !.num_cols = cols,
                !.row_list = Zeros(rows + 1),
                !.col_list = Zeros(cols + 1),
                !.num_blocks = rows * cols,
                !.block_size = (self.width \div cols) * (self.height \div rows)]

\* The bounds of randint(lower, upper): lower = -user_block_size / 3 and
\* upper = user_block_size / 3, both floor divisions of ints.
OffsetLower(user_block_size) == (-user_block_size) \div 3
OffsetUpper(user_block_size) == user_block_size \div 3

DestCols(self, user_block_size, width_override, height_override) ==
    IF width_override > 0 /\ height_override > 0
    THEN width_override \div user_block_size
    ELSE self.width \div user_block_size

DestRows(self, user_block_size, width_override, height_override) ==
    IF width_override > 0 /\ height_override > 0
    THEN height_override \div user_block_size
    ELSE self.height \div user_block_size

\* The mutant of OffsetList: the first and the last boundary keep their
\* draws.
OffsetListAsDrawn(is_non_uniform, draws, count) ==
    IF is_non_uniform THEN draws ELSE Zeros(count + 1)

\* _row_list or _col_list for count blocks: count + 1 boundaries, draws the
\* randint results; the first and the last boundary are set to 0.
OffsetList(is_non_uniform, draws, count) ==
    IF is_non_uniform
    THEN [draws EXCEPT ![1] = 0, ![count + 1] = 0]
    ELSE Zeros(count + 1)

\* The destination branch (user_block_size > 0); row_draws and col_draws are
\* the randint results, one per boundary.
CalcBlockVarsDest(self, user_block_size, width_override, height_override, row_draws, col_draws) ==
    LET cols == DestCols(self, user_block_size, width_override, height_override)
        rows == DestRows(self, user_block_size, width_override, height_override)
    IN [self EXCEPT
           !.phase = "partitioned",
           !.user_block_size = user_block_size,
           !.width_override = width_override,
           !.height_override = height_override,
           !.block_width = user_block_size,
           !.block_height = user_block_size,
           !.num_cols = cols,
           !.num_rows = rows,
           !.row_list = OffsetList(self.is_non_uniform, row_draws, rows),
           !.col_list = OffsetList(self.is_non_uniform, col_draws, cols),
           !.num_blocks = rows * cols,
           !.block_size = user_block_size * user_block_size]

\* The randint draws of one axis: one per boundary when non-uniform.
OffsetDraws(self, user_block_size, count) ==
    IF self.is_non_uniform
    THEN [1..(count + 1) -> OffsetLower(user_block_size)..OffsetUpper(user_block_size)]
    ELSE {<<>>}

(***************************************************************************)
(* SpecPartition: the source image's grid, for every raster size.          *)
(***************************************************************************)
InitPartition ==
    /\ grid \in {NewSourceImage(w, h, FALSE, FALSE) :
                    w \in 1..MaxRaster, h \in 1..MaxRaster}
    /\ hdrrun = Unused
    /\ source_image = Unused
    /\ dest_image = Unused
    /\ dest_med = Unused
    /\ dest_high = Unused
    /\ output = Unused

PartitionSource ==
    /\ grid.phase = "new"
    /\ grid' = CalcBlockVarsSource(grid)
    /\ UNCHANGED <<hdrrun, source_image, dest_image, dest_med, dest_high, output>>

NextPartition == PartitionSource

SpecPartition == InitPartition /\ [][NextPartition]_vars

\* C7: source-style partition yields numRows * numCols <= 256 for every
\* raster whose row and column counts are positive.
C7_AtMost256Tiles ==
    (grid.phase = "partitioned" /\ grid.num_rows > 0 /\ grid.num_cols > 0)
        => grid.num_rows * grid.num_cols <= TargetTiles

\* C8 as stated: cols is round(aspect * rows) with rows the already-rounded
\* row count, and a 100x50 source gets 11 rows and 22 columns.
C8_ColsFromRoundedRows ==
    grid.phase = "partitioned"
        => /\ grid.num_cols =
                  (2 * grid.width * grid.num_rows + grid.height) \div (2 * grid.height)
           /\ (grid.width = 100 /\ grid.height = 50)
                  => (grid.num_rows = 11 /\ grid.num_cols = 22)

\* C8 as amended: rows = round(sqrt(256 / aspect)) and cols = round(aspect *
\* sqrt(256 / aspect)) = round(sqrt(256 * aspect)), cols taken from the
\* unrounded root; a 100x50 source gets 11 rows and 23 columns.
C8_ColsFromUnroundedRows ==
    grid.phase = "partitioned"
        => /\ (2 * grid.num_rows - 1) * (2 * grid.num_rows - 1) * grid.width
                  <= 4 * TargetTiles * grid.height
           /\ 4 * TargetTiles * grid.height
                  < (2 * grid.num_rows + 1) * (2 * grid.num_rows + 1) * grid.width
           /\ (2 * grid.num_cols - 1) * (2 * grid.num_cols - 1) * grid.height
                  <= 4 * TargetTiles * grid.width
           /\ 4 * TargetTiles * grid.width
                  < (2 * grid.num_cols + 1) * (2 * grid.num_cols + 1) * grid.height
           /\ (grid.width = 100 /\ grid.height = 50)
                  => (grid.num_rows = 11 /\ grid.num_cols = 23)

C8_Witness ==
    /\ grid.phase = "partitioned"
    /\ grid.width = 100 /\ grid.height = 50
    /\ grid.num_rows = 11 /\ grid.num_cols = 23

(***************************************************************************)
(* SourceImage.build_average_list                                          *)
(***************************************************************************)
\* The bounding box of block i (0-based), with the offsets of its boundaries.
BlockBox(self, i) ==
    LET col == i % self.num_cols
        row == i \div self.num_cols
    IN [start_x |-> col * self.block_width + self.col_list[col + 1],
        end_x |-> col * self.block_width + self.block_width + self.col_list[col + 2],
        start_y |-> row * self.block_height + self.row_list[row + 1],
        end_y |-> row * self.block_height + self.block_height + self.row_list[row + 2]]

\* current_block_size = (end_x - start_x) * (end_y - start_y)
CurrentBlockSize(self, i) ==
    (BlockBox(self, i).end_x - BlockBox(self, i).start_x)
        * (BlockBox(self, i).end_y - BlockBox(self, i).start_y)

\* The avg_dict of a block is what the crop, getcolors and the averaging make
\* of the block's pixels, which are the input here: sample blocks whose
\* seven averages lie in 0..max_value and whose variance lies in 0..10
\* (BlockAvgDict below computes an avg_dict from the pixels).
AvgDictChoices(max_value) ==
    {[l |-> 0, h |-> 0, s |-> 0, v |-> 0, r |-> 0, g |-> 0, b |-> 0,
      variance |-> 0],
     [l |-> max_value \div 2, h |-> max_value \div 3, s |-> max_value,
      v |-> max_value, r |-> max_value, g |-> max_value \div 4, b |-> 0,
      variance |-> 2],
     [l |-> max_value, h |-> 0, s |-> 0, v |-> max_value, r |-> max_value,
      g |-> max_value, b |-> max_value, variance |-> 10]}

\* The pixels of a raster, as the avg_dicts of its blocks: block i shows
\* sample pattern[(i mod Len(pattern)) + 1].
SamplePatterns(max_value) ==
    {<<a, b>> : a \in AvgDictChoices(max_value), b \in AvgDictChoices(max_value)}

BlockSamples(pattern, num_blocks) ==
    [k \in 1..num_blocks |-> pattern[((k - 1) % Len(pattern)) + 1]]

\* The mutant of RgbToHsv: the branch of g starts at 4 like the branch of b.
RgbToHsvGreenAtFour(r, g, b) ==
    LET min_rgb == IF r <= g /\ r <= b THEN r ELSE IF g <= b THEN g ELSE b
        max_rgb == IF r >= g /\ r >= b THEN r ELSE IF g >= b THEN g ELSE b
        delta == max_rgb - min_rgb
        Sixth(offset, x, y) ==
            IF x >= y
            THEN FloatAdd(FloatOfInt(offset), FloatDiv(x - y, delta))
            ELSE FloatSub(FloatOfInt(offset), FloatDiv(y - x, delta))
    IN IF max_rgb = 0
       THEN [h |-> FloatZero, s |-> FloatZero, v |-> FloatZero]
       ELSE [h |-> IF min_rgb = max_rgb THEN FloatZero
                   ELSE IF r = max_rgb
                   THEN IF g >= b
                        THEN FloatMulInt(FloatDiv(g - b, delta), 60)
                        ELSE FloatSub(FloatOfInt(360),
                                      FloatMulInt(FloatDiv(b - g, delta), 60))
                   ELSE IF g = max_rgb
                   THEN FloatMulInt(Sixth(4, b, r), 60)
                   ELSE FloatMulInt(Sixth(4, r, g), 60),
             s |-> FloatDiv(delta, max_rgb),
             v |-> FloatOfInt(max_rgb)]

\* utils.rgb_to_hsv(r, g, b): h in degrees, s in 0..1, v = max(r, g, b),
\* as floats.  A negative h is 360.0 minus its size.
RgbToHsv(r, g, b) ==
    LET min_rgb == IF r <= g /\ r <= b THEN r ELSE IF g <= b THEN g ELSE b
        max_rgb == IF r >= g /\ r >= b THEN r ELSE IF g >= b THEN g ELSE b
        delta == max_rgb - min_rgb
        Sixth(offset, x, y) ==
            IF x >= y
            THEN FloatAdd(FloatOfInt(offset), FloatDiv(x - y, delta))
            ELSE FloatSub(FloatOfInt(offset), FloatDiv(y - x, delta))
    IN IF max_rgb = 0
       THEN [h |-> FloatZero, s |-> FloatZero, v |-> FloatZero]
       ELSE [h |-> IF min_rgb = max_rgb THEN FloatZero
                   ELSE IF r = max_rgb
                   THEN IF g >= b
                        THEN FloatMulInt(FloatDiv(g - b, delta), 60)
                        ELSE FloatSub(FloatOfInt(360),
                                      FloatMulInt(FloatDiv(b - g, delta), 60))
                   ELSE IF g = max_rgb
                   THEN FloatMulInt(Sixth(2, b, r), 60)
                   ELSE FloatMulInt(Sixth(4, r, g), 60),
             s |-> FloatDiv(delta, max_rgb),
             v |-> FloatOfInt(max_rgb)]

\* rsum, gsum, bsum over the first len items of colors = block.getcolors():
\* each item a count and an (r, g, b)
RECURSIVE RgbSum(_, _, _)
RgbSum(colors, channel, len) ==
    IF len = 0 THEN 0
    ELSE RgbSum(colors, channel, len - 1)
             + colors[len].rgb[channel] * colors[len].count

\* hsum, ssum, vsum over the first len items of colors
RECURSIVE HsvSum(_, _, _)
HsvSum(colors, channel, len) ==
    IF len = 0 THEN FloatZero
    ELSE FloatAdd(HsvSum(colors, channel, len - 1),
                  FloatMulInt(RgbToHsv(colors[len].rgb[1], colors[len].rgb[2],
                                       colors[len].rgb[3])[channel],
                              colors[len].count))

\* int((avg / 255.0) * max_value), and likewise with 359.0
ScaledAvg(avg, full, max_value) ==
    FloatToInt(FloatMulInt(FloatDivInt(avg, full), max_value))

\* The avg_dict of a block of current_block_size pixels whose colors are
\* colors.
BlockAvgDict(colors, current_block_size, max_value) ==
    LET avg_r == FloatDiv(RgbSum(colors, 1, Len(colors)), current_block_size)
        avg_g == FloatDiv(RgbSum(colors, 2, Len(colors)), current_block_size)
        avg_b == FloatDiv(RgbSum(colors, 3, Len(colors)), current_block_size)
        avg_l == FloatAdd(FloatAdd(FloatMul(avg_r, FloatDiv(299, 1000)),
                                   FloatMul(avg_g, FloatDiv(587, 1000))),
                          FloatMul(avg_b, FloatDiv(114, 1000)))
        avg_h == FloatDivInt(HsvSum(colors, "h", Len(colors)), current_block_size)
        avg_s == FloatDivInt(HsvSum(colors, "s", Len(colors)), current_block_size)
        avg_v == FloatDivInt(HsvSum(colors, "v", Len(colors)), current_block_size)
    IN [l |-> ScaledAvg(avg_l, 255, max_value),
        h |-> ScaledAvg(avg_h, 359, max_value),
        s |-> FloatToInt(FloatMulInt(avg_s, max_value)),
        v |-> ScaledAvg(avg_v, 255, max_value),
        r |-> ScaledAvg(avg_r, 255, max_value),
        g |-> ScaledAvg(avg_g, 255, max_value),
        b |-> ScaledAvg(avg_b, 255, max_value),
        variance |-> FloatToInt(FloatMulInt(
                         FloatDiv(Len(colors), current_block_size), 10))]

\* The blocks build_average_list gets through: all of them, or those before
\* the first block of no pixels, whose averages divide by current_block_size
\* = 0 and raise ZeroDivisionError.
BlocksAveraged(self) ==
    IF \A i \in 0..(self.num_blocks - 1) : CurrentBlockSize(self, i) # 0
    THEN self.num_blocks
    ELSE CHOOSE i \in 0..(self.num_blocks - 1) :
             /\ CurrentBlockSize(self, i) = 0
             /\ \A h \in 0..(i - 1) : CurrentBlockSize(self, h) # 0

\* build_average_list(max_value): one avg_dict appended per block, to the
\* list as it stands.
BuildAverageList(self, max_value, samples) ==
    [self EXCEPT
        !.phase = IF BlocksAveraged(self) = self.num_blocks
                  THEN "averaged" ELSE "error",
        !.max_value = max_value,
        !.stats_calls = self.stats_calls + 1,
        !.avg_list = self.avg_list \o SubSeq(samples, 1, BlocksAveraged(self))]

(***************************************************************************)
(* SourceImage.build_average_lut                                           *)
(***************************************************************************)
\* 'x' in atype, atype a string: a sequence of letters
InAtype(x, atype) == \E k \in 1..Len(atype) : atype[k] = x

\* The mutant of AlgSum: only the first letter found is added.
AlgSumFirstLetter(avg_dict, atype) ==
    IF InAtype("l", atype) THEN avg_dict.l
    ELSE IF InAtype("h", atype) THEN avg_dict.h
    ELSE IF InAtype("s", atype) THEN avg_dict.s
    ELSE IF InAtype("v", atype) THEN avg_dict.v
    ELSE IF InAtype("r", atype) THEN avg_dict.r
    ELSE IF InAtype("g", atype) THEN avg_dict.g
    ELSE IF InAtype("b", atype) THEN avg_dict.b
    ELSE 0

\* alg_sum: the averages of the letters present in atype, each added once
AlgSum(avg_dict, atype) ==
    (IF InAtype("l", atype) THEN avg_dict.l ELSE 0)
    + (IF InAtype("h", atype) THEN avg_dict.h ELSE 0)
    + (IF InAtype("s", atype) THEN avg_dict.s ELSE 0)
    + (IF InAtype("v", atype) THEN avg_dict.v ELSE 0)
    + (IF InAtype("r", atype) THEN avg_dict.r ELSE 0)
    + (IF InAtype("g", atype) THEN avg_dict.g ELSE 0)
    + (IF InAtype("b", atype) THEN avg_dict.b ELSE 0)

\* The tuple appended for block i (0-based): (i, avg, variance, (r, g, b))
\* for the color-only type, (i, avg, variance) otherwise.  The sums are small
\* ints held in floats, so int(sum / k) is floor(sum / k).
LutEntry(avg_dict, i, atype) ==
    IF InAtype("c", atype)
    THEN <<i, (avg_dict.r + avg_dict.g + avg_dict.b) \div 3, avg_dict.variance,
           <<avg_dict.r, avg_dict.g, avg_dict.b>>>>
    ELSE <<i, AlgSum(avg_dict, atype) \div Len(atype), avg_dict.variance>>

\* The mutant of UnsortedLut: the last block is left out.
UnsortedLutShort(self, atype) ==
    [k \in 1..(self.num_blocks - 1) |->
        LutEntry(self.avg_list[k], k - 1, atype)] \o <<>>

\* avg_lut before the sort: one tuple per block, in block order
UnsortedLut(self, atype) ==
    [k \in 1..self.num_blocks |->
        LutEntry(self.avg_list[k], k - 1, atype)] \o <<>>

\* The entries of lut whose avg is in avgs, by ascending avg, those of equal
\* avg in the order they have in lut.
RECURSIVE SortedFrom(_, _)
SortedFrom(lut, avgs) ==
    IF avgs = {}
    THEN <<>>
    ELSE LET low == CHOOSE a \in avgs : \A b \in avgs : a <= b
             HasLow(tup) == tup[2] = low
         IN SelectSeq(lut, HasLow) \o SortedFrom(lut, avgs \ {low})

\* The mutant of SortByAvg: entries of equal avg come out in reverse order.
SortByAvgUnstable(lut) ==
    SortedFrom([k \in 1..Len(lut) |-> lut[Len(lut) + 1 - k]] \o <<>>,
               {lut[k][2] : k \in 1..Len(lut)})

\* avg_lut.sort(key=lambda tup: tup[1]): Python's sort is stable
SortByAvg(lut) ==
    SortedFrom(lut, {lut[k][2] : k \in 1..Len(lut)})

\* The mutant of BuildAverageLut: the table of the call before is kept and
\* added to.
BuildAverageLutAppends(self, atype) ==
    IF \/ (self.num_blocks > 0 /\ Len(atype) = 0)
       \/ Len(self.avg_list) < self.num_blocks
    THEN [self EXCEPT !.phase = "error"]
    ELSE [self EXCEPT
             !.phase = "lut",
             !.atype = atype,
             !.avg_lut = SortByAvg(self.avg_lut \o UnsortedLut(self, atype))]

\* build_average_lut(atype).  For the other types int(alg_sum / len(atype))
\* raises ZeroDivisionError on an empty atype, and self._avg_list[i] raises
\* IndexError for a block with no avg_dict; _avg_lut is assigned last.
BuildAverageLut(self, atype) ==
    IF \/ (self.num_blocks > 0 /\ Len(atype) = 0)
       \/ Len(self.avg_list) < self.num_blocks
    THEN [self EXCEPT !.phase = "error"]
    ELSE [self EXCEPT
             !.phase = "lut",
             !.atype = atype,
             !.avg_lut = SortByAvg(UnsortedLut(self, atype))]

(***************************************************************************)
(* SpecGrid: one SourceImage through calculate_block_vars,                 *)
(* build_average_list and build_average_lut.                               *)
(***************************************************************************)
MaxGridRaster == 8
MaxBlockSize == 4
MaxGridCells == 2
SrcRasterSide == 16
MaxStatsCalls == 2
GridMaxValue == 255

\* calculate_block_vars, both branches
CalculateBlockVars(self, user_block_size, width_override, height_override, row_draws, col_draws) ==
    IF user_block_size > 0
    THEN CalcBlockVarsDest(self, user_block_size, width_override,
                           height_override, row_draws, col_draws)
    ELSE CalcBlockVarsSource(self)

\* The algorithm strings tried: one channel, two channels, color-only.
AtypeChoices == {<<"l">>, <<"h", "s">>, <<"c">>}

GridRasters ==
    ((1..MaxGridRaster) \X (1..MaxGridRaster))
        \cup {<<SrcRasterSide, SrcRasterSide>>, <<2 * SrcRasterSide, SrcRasterSide>>}

InitGrid ==
    /\ grid \in {NewSourceImage(wh[1], wh[2], nu, FALSE) :
                    wh \in GridRasters, nu \in BOOLEAN}
    /\ hdrrun = Unused
    /\ source_image = Unused
    /\ dest_image = Unused
    /\ dest_med = Unused
    /\ dest_high = Unused
    /\ output = Unused

GridCalculateBlockVars ==
    /\ grid.phase = "new"
    /\ \E S \in 0..MaxBlockSize :
          /\ S > 0 => /\ DestCols(grid, S, 0, 0) <= MaxGridCells
                      /\ DestRows(grid, S, 0, 0) <= MaxGridCells
          /\ \E row_draws \in OffsetDraws(grid, S, IF S > 0 THEN DestRows(grid, S, 0, 0) ELSE 0),
                col_draws \in OffsetDraws(grid, S, IF S > 0 THEN DestCols(grid, S, 0, 0) ELSE 0) :
                grid' = CalculateBlockVars(grid, S, 0, 0, row_draws, col_draws)
    /\ UNCHANGED <<hdrrun, source_image, dest_image, dest_med, dest_high, output>>

\* The image does not change between two calls: a later call measures the
\* avg_dicts the first call measured.
GridBuildAverageList ==
    /\ grid.phase \in {"partitioned", "averaged", "lut"}
    /\ grid.stats_calls < MaxStatsCalls
    /\ \E pattern \in SamplePatterns(GridMaxValue) :
          LET samples == IF grid.stats_calls = 0
                         THEN BlockSamples(pattern, grid.num_blocks)
                         ELSE SubSeq(grid.avg_list, 1, grid.num_blocks)
          IN grid' = BuildAverageList(grid, GridMaxValue, samples)
    /\ UNCHANGED <<hdrrun, source_image, dest_image, dest_med, dest_high, output>>

GridBuildAverageLut ==
    /\ grid.phase \in {"averaged", "lut"}
    /\ \E atype \in AtypeChoices : grid' = BuildAverageLut(grid, atype)
    /\ UNCHANGED <<hdrrun, source_image, dest_image, dest_med, dest_high, output>>

NextGrid ==
    \/ GridCalculateBlockVars
    \/ GridBuildAverageList
    \/ GridBuildAverageLut

SpecGrid == InitGrid /\ [][NextGrid]_vars

\* C1: a grid partitioned, averaged once and given its lookup table has
\* num_rows * num_cols = num_blocks = len(avg_list) = len(avg_lut), and its
\* row and column offset lists are num_rows + 1 and num_cols + 1 long,
\* whether source-style, uniform or non-uniform.
C1_LengthsAgree ==
    (grid.phase = "lut" /\ grid.stats_calls = 1)
        => /\ grid.num_rows * grid.num_cols = grid.num_blocks
           /\ grid.num_blocks = Len(grid.avg_list)
           /\ grid.num_blocks = Len(grid.avg_lut)
           /\ Len(grid.row_list) = grid.num_rows + 1
           /\ Len(grid.col_list) = grid.num_cols + 1

\* C1 witness: a non-uniform destination-style grid of four blocks with a
\* moved interior boundary has its lookup table.
C1_Witness ==
    /\ grid.phase = "lut"
    /\ grid.stats_calls = 1
    /\ grid.is_non_uniform
    /\ grid.user_block_size > 0
    /\ grid.num_blocks = 4
    /\ grid.row_list[2] # 0

\* C2: the lookup table is sorted non-decreasing by avg, entries of equal
\* avg are in ascending block index, and its block indices are exactly
\* 0 .. num_blocks - 1, each once.
C2_SortedStablePermutation ==
    grid.phase = "lut"
        => /\ \A p \in 1..Len(grid.avg_lut) : \A q \in (p + 1)..Len(grid.avg_lut) :
                 /\ grid.avg_lut[p][2] <= grid.avg_lut[q][2]
                 /\ grid.avg_lut[p][2] = grid.avg_lut[q][2]
                        => grid.avg_lut[p][1] < grid.avg_lut[q][1]
           /\ Len(grid.avg_lut) = grid.num_blocks
           /\ {grid.avg_lut[p][1] : p \in 1..Len(grid.avg_lut)}
                  = 0..(grid.num_blocks - 1)

\* C2 witness: a lookup table that is not in block order and holds two
\* entries of equal avg.
C2_Witness ==
    /\ grid.phase = "lut"
    /\ \E p \in 1..Len(grid.avg_lut) : grid.avg_lut[p][1] # p - 1
    /\ \E p \in 1..Len(grid.avg_lut) : \E q \in (p + 1)..Len(grid.avg_lut) :
          grid.avg_lut[p][2] = grid.avg_lut[q][2]

\* C6: after the partition of a non-uniform destination-style grid with
\* block size S > 0, the first and last element of both offset lists is 0
\* and every interior element x has -S/3 <= x <= S/3 (3x between -S and S).
C6_OffsetsWithinThird ==
    (grid.phase = "partitioned" /\ grid.is_non_uniform /\ grid.user_block_size > 0)
        => /\ grid.row_list[1] = 0 /\ grid.row_list[grid.num_rows + 1] = 0
           /\ grid.col_list[1] = 0 /\ grid.col_list[grid.num_cols + 1] = 0
           /\ \A k \in 2..grid.num_rows :
                 /\ -grid.user_block_size <= 3 * grid.row_list[k]
                 /\ 3 * grid.row_list[k] <= grid.user_block_size
           /\ \A k \in 2..grid.num_cols :
                 /\ -grid.user_block_size <= 3 * grid.col_list[k]
                 /\ 3 * grid.col_list[k] <= grid.user_block_size

\* The part of C6 the code keeps: first and last offsets are 0 and every
\* interior offset lies in floor(-S/3) .. floor(S/3).
OffsetsWithinFloorThird ==
    (grid.phase = "partitioned" /\ grid.is_non_uniform /\ grid.user_block_size > 0)
        => /\ grid.row_list[1] = 0 /\ grid.row_list[grid.num_rows + 1] = 0
           /\ grid.col_list[1] = 0 /\ grid.col_list[grid.num_cols + 1] = 0
           /\ \A k \in 2..grid.num_rows :
                 grid.row_list[k] \in OffsetLower(grid.user_block_size)
                                          ..OffsetUpper(grid.user_block_size)
           /\ \A k \in 2..grid.num_cols :
                 grid.col_list[k] \in OffsetLower(grid.user_block_size)
                                          ..OffsetUpper(grid.user_block_size)

(***************************************************************************)
(* OutputImage.build_image: the index into the source lookup table.        *)
(***************************************************************************)
\* current_scale = 1.0 / current_num_blocks * src_num_blocks, in floats
CurrentScale(current_num_blocks, src_num_blocks) ==
    FloatMulInt(FloatDiv(1, current_num_blocks), src_num_blocks)

\* j = (int(current_scale * i) * scale_mult) + (int(current_dest_lut[i][1]) * dest_mult)
\* with scale_mult = int(is_hdr) and dest_mult = int(not is_hdr)
SourceLutIndex(is_hdr, current_scale, i, dest_avg) ==
    (FloatToInt(FloatMulInt(current_scale, i)) * (IF is_hdr THEN 1 ELSE 0))
        + (dest_avg * (IF is_hdr THEN 0 ELSE 1))

(***************************************************************************)
(* SpecHdr: one hdr pass of build_image over a destination grid of         *)
(* dest_rows x dest_cols blocks, the source grid being that of a           *)
(* src_width x src_height raster.  Under hdr j does not read the lookup    *)
(* tables' entries, only their lengths.                                    *)
(***************************************************************************)
InitHdr ==
    /\ hdrrun \in {[phase |-> "start",
                    src_width |-> w, src_height |-> h,
                    src_num_blocks |->
                        CalcBlockVarsSource(NewSourceImage(w, h, FALSE, FALSE)).num_blocks,
                    dest_rows |-> r, dest_cols |-> c,
                    current_num_blocks |-> r * c,
                    j_list |-> <<>>] :
                      w \in 1..MaxHdrRaster, h \in 1..MaxHdrRaster,
                      r \in 1..MaxHdrRows, c \in 1..MaxHdrCols}
    /\ grid = Unused
    /\ source_image = Unused
    /\ dest_image = Unused
    /\ dest_med = Unused
    /\ dest_high = Unused
    /\ output = Unused

\* The j of every iteration i = 0 .. current_num_blocks - 1 of the pass, in
\* order (j_list[i + 1] is the j of iteration i).  src_list[j] raises
\* IndexError when j is no index of the source table.
HdrPass ==
    /\ hdrrun.phase = "start"
    /\ LET scale == CurrentScale(hdrrun.current_num_blocks, hdrrun.src_num_blocks)
           js == [i \in 1..hdrrun.current_num_blocks |->
                     SourceLutIndex(TRUE, scale, i - 1, 0)]
       IN hdrrun' = [hdrrun EXCEPT
              !.phase = IF \A i \in 1..Len(js) : js[i] < hdrrun.src_num_blocks
                        THEN "done" ELSE "error",
              !.j_list = js]
    /\ UNCHANGED <<grid, source_image, dest_image, dest_med, dest_high, output>>

NextHdr == HdrPass

SpecHdr == InitHdr /\ [][NextHdr]_vars

\* C4: under hdr, for every rank i in [0, destCount) the source index is
\* j = floor(i * srcCount / destCount), 0 <= j < srcCount, j is
\* non-decreasing in i, and every rank is visited exactly once.
C4_HdrIndexIsFloor ==
    hdrrun.phase # "start"
        => /\ hdrrun.phase = "done"
           /\ Len(hdrrun.j_list) = hdrrun.current_num_blocks
           /\ \A i \in 1..Len(hdrrun.j_list) :
                  /\ hdrrun.j_list[i] =
                         ((i - 1) * hdrrun.src_num_blocks) \div hdrrun.current_num_blocks
                  /\ 0 <= hdrrun.j_list[i]
                  /\ hdrrun.j_list[i] < hdrrun.src_num_blocks
                  /\ i > 1 => hdrrun.j_list[i - 1] <= hdrrun.j_list[i]

\* What the code does keep of C4: j is a valid index, non-decreasing in i,
\* one per rank, and at most one below the exact floor.
HdrIndexInRangeAndMonotone ==
    hdrrun.phase # "start"
        => /\ hdrrun.phase = "done"
           /\ Len(hdrrun.j_list) = hdrrun.current_num_blocks
           /\ \A i \in 1..Len(hdrrun.j_list) :
                  /\ hdrrun.j_list[i] \in
                         {((i - 1) * hdrrun.src_num_blocks) \div hdrrun.current_num_blocks,
                          (((i - 1) * hdrrun.src_num_blocks) \div hdrrun.current_num_blocks) - 1}
                  /\ 0 <= hdrrun.j_list[i]
                  /\ hdrrun.j_list[i] < hdrrun.src_num_blocks
                  /\ i > 1 => hdrrun.j_list[i - 1] <= hdrrun.j_list[i]

\* C5: under hdr, in a single pass with destCount >= srcCount, every source
\* index in [0, srcCount) is selected for at least one destination block.
C5_HdrUsesEverySourceTile ==
    (hdrrun.phase # "start" /\ hdrrun.current_num_blocks >= hdrrun.src_num_blocks)
        => \A k \in 0..(hdrrun.src_num_blocks - 1) :
               \E i \in 1..Len(hdrrun.j_list) : hdrrun.j_list[i] = k

(***************************************************************************)
(* OutputImage                                                             *)
(***************************************************************************)
\* OutputImage.__init__: the fields, and the parts of the output file name
\* that come from the options.
NewOutputImage(med_threshold, small_threshold, is_non_uniform, is_detail, user_block_size, atype, is_hdr) ==
    [phase |-> "new",
     atype |-> atype,
     med_threshold |-> med_threshold,
     small_threshold |-> small_threshold,
     is_non_uniform |-> is_non_uniform,
     is_detail |-> is_detail,
     user_block_size |-> user_block_size,
     is_hdr |-> is_hdr,
     out_name |-> [size |-> IF is_detail THEN user_block_size \div 2
                            ELSE user_block_size,
                   n |-> is_non_uniform, d |-> is_detail,
                   atype |-> atype, hdr |-> is_hdr],
     out_size |-> <<0, 0>>,
     num_passes |-> 0,
     p |-> 0,
     last_skip_list |-> [is_none |-> TRUE, list |-> <<>>],
     draw_offset |-> 0,
     draws_used |-> 0,
     pass_log |-> <<>>,
     skip_lists |-> <<>>,
     tested |-> <<>>,
     pastes |-> <<>>,
     runs |-> 0,
     first_run |-> [skip_lists |-> <<>>, pastes |-> <<>>]]

\* The mutant of BuildImageStart: last_skip_list outlives the call.
BuildImageStartKeepsSkipList(self, dest, draw_offset) ==
    [self EXCEPT
        !.phase = "pass",
        !.num_passes = IF self.is_detail THEN 3 ELSE 1,
        !.out_size = <<dest.num_cols * self.user_block_size,
                       dest.num_rows * self.user_block_size>>,
        !.p = 0,
        !.draw_offset = draw_offset,
        !.draws_used = 0,
        !.pass_log = <<>>,
        !.skip_lists = <<>>,
        !.tested = <<>>,
        !.pastes = <<>>,
        !.runs = self.runs + 1]

\* build_image up to the loop over the passes; draw_offset is where the run
\* starts in the stream of random draws, runs counts the calls made.
BuildImageStart(self, dest, draw_offset) ==
    [self EXCEPT
        !.phase = "pass",
        !.num_passes = IF self.is_detail THEN 3 ELSE 1,
        !.out_size = <<dest.num_cols * self.user_block_size,
                       dest.num_rows * self.user_block_size>>,
        !.p = 0,
        !.last_skip_list = [is_none |-> TRUE, list |-> <<>>],
        !.draw_offset = draw_offset,
        !.draws_used = 0,
        !.pass_log = <<>>,
        !.skip_lists = <<>>,
        !.tested = <<>>,
        !.pastes = <<>>,
        !.runs = self.runs + 1]

\* temp_list[p]['threshold']
CurrentThreshold(self, p) ==
    IF p = 0 THEN self.med_threshold
    ELSE IF p = 1 THEN self.small_threshold
    ELSE 0

\* The mutant of OuterIdx: y is the row of the block, not halved.
OuterIdxOfRow(dest_idx, current_cols) ==
    ((dest_idx \div current_cols) * (current_cols \div 2))
        + ((dest_idx % current_cols) \div 2)

\* The index of the larger block that contains block dest_idx
OuterIdx(dest_idx, current_cols) ==
    ((dest_idx \div (current_cols * 2)) * (current_cols \div 2))
        + ((dest_idx % current_cols) \div 2)

\* The mutant of InheritsSkip: no skip is inherited.
InheritsSkipNever(last_skip_list, dest_idx, current_cols) ==
    FALSE

\* outeridx in last_skip_list, tested on passes that have a last_skip_list
InheritsSkip(last_skip_list, dest_idx, current_cols) ==
    /\ ~last_skip_list.is_none
    /\ \E k \in 1..Len(last_skip_list.list) :
          last_skip_list.list[k] = OuterIdx(dest_idx, current_cols)

\* The stream of (flip, rotate) draws, randint(0, 2) and randint(0, 3):
\* a stream of period four, entered at draw_offset.
TransformDraws == <<<<0, 0>>, <<1, 1>>, <<2, 2>>, <<0, 3>>>>

DrawAt(draw_offset, t) ==
    TransformDraws[((draw_offset + t) % Len(TransformDraws)) + 1]

\* The transpose calls made on the cropped block: transpose(flip - 1) when
\* flip > 0, then transpose(rotate - 1) when rotate > 0.
TransposeOps(draw) ==
    (IF draw[1] > 0 THEN <<draw[1] - 1>> ELSE <<>>)
        \o (IF draw[2] > 0 THEN <<draw[2] - 1>> ELSE <<>>)

\* Image.transpose: methods 2 (ROTATE_90) and 4 (ROTATE_270) exchange the
\* width and the height, 0, 1 and 3 keep them.
TransposedSize(size, ops) ==
    IF Cardinality({k \in 1..Len(ops) : ops[k] \in {2, 4}}) % 2 = 1
    THEN <<size[2], size[1]>>
    ELSE size

\* The mutant of SolidColor: j taken for a block index, not a table index.
SolidColorOfBlock(src_list, j) ==
    src_list[CHOOSE k \in 1..Len(src_list) : src_list[k][1] = j][4]

\* rgb = src_list[j][3]
SolidColor(src_list, j) ==
    src_list[j + 1][4]

\* What one iteration that reaches the paste does: the block pasted for
\* entry i (1-based) of the destination table, j its source table index,
\* draw its (flip, rotate) draw.
PastedBlock(self, source, current_dest, i, j, draw) ==
    LET src_idx == source.avg_lut[j + 1][1]
        dest_idx == current_dest.avg_lut[i][1]
        current_cols == current_dest.num_cols
        current_block_size == self.user_block_size \div (2 ^ self.p)
        col == dest_idx % current_cols
        row == dest_idx \div current_cols
        start_x == col * current_block_size + current_dest.col_list[col + 1]
        end_x == col * current_block_size + current_block_size
                     + current_dest.col_list[col + 2]
        start_y == row * current_block_size + current_dest.row_list[row + 1]
        end_y == row * current_block_size + current_block_size
                     + current_dest.row_list[row + 2]
        dest_block_width == end_x - start_x
        dest_block_height == end_y - start_y
        crop_x == (src_idx % source.num_cols) * source.block_width
        crop_y == (src_idx \div source.num_cols) * source.block_height
        ops == TransposeOps(draw)
        resized == \/ source.block_width # dest_block_width
                   \/ source.block_height # dest_block_height
    IN IF InAtype("c", self.atype)
       THEN [i |-> i - 1, j |-> j, src_idx |-> src_idx, dest_idx |-> dest_idx,
             kind |-> "color", rgb |-> SolidColor(source.avg_lut, j),
             crop |-> <<>>, draw |-> <<>>, ops |-> <<>>, resized |-> FALSE,
             block_size |-> <<dest_block_width, dest_block_height>>,
             dest_size |-> <<dest_block_width, dest_block_height>>,
             at |-> <<start_x, start_y>>]
       ELSE [i |-> i - 1, j |-> j, src_idx |-> src_idx, dest_idx |-> dest_idx,
             kind |-> "crop", rgb |-> <<>>,
             crop |-> <<crop_x, crop_y, crop_x + source.block_width,
                        crop_y + source.block_height>>,
             draw |-> draw, ops |-> ops, resized |-> resized,
             block_size |-> IF resized
                            THEN <<dest_block_width, dest_block_height>>
                            ELSE TransposedSize(<<source.block_width,
                                                  source.block_height>>, ops),
             dest_size |-> <<dest_block_width, dest_block_height>>,
             at |-> <<start_x, start_y>>]

\* The mutant of NextLastSkipList: the lists of the passes pile up.
NextLastSkipListPiledUp(last_skip_list, skip_list) ==
    [is_none |-> FALSE, list |-> last_skip_list.list \o skip_list]

\* last_skip_list = skip_list, at the end of a pass
NextLastSkipList(last_skip_list, skip_list) ==
    [is_none |-> FALSE, list |-> skip_list]

\* The mutant of AppendsToSkipList: only inherited skips are recorded.
AppendsInheritedOnly(inherits, variance, current_threshold) ==
    inherits

\* The mutant of AppendsToSkipList: an inherited skip is not recorded.
AppendsVarianceOnly(inherits, variance, current_threshold) ==
    variance < current_threshold

\* skip_list.append(dest_idx) is reached: on an inherited skip, or with the
\* variance below the threshold of the pass.
AppendsToSkipList(inherits, variance, current_threshold) ==
    inherits \/ variance < current_threshold

\* One pass of the loop over the passes, lines 450 to 580.  pass_log keeps,
\* for every pass entered, its p and the last_skip_list its iterations test.  1.0 /
\* current_num_blocks raises ZeroDivisionError on an empty table, src_list[j]
\* raises IndexError when j is no index of the source table: the pass stops
\* there, the blocks pasted before stay pasted and last_skip_list is not
\* assigned.
BuildImagePass(self, source, current_dest) ==
    LET current_dest_lut == current_dest.avg_lut
        current_num_blocks == Len(current_dest_lut)
        src_num_blocks == Len(source.avg_lut)
        current_threshold == CurrentThreshold(self, self.p)
        current_cols == current_dest.num_cols
        current_scale == IF current_num_blocks = 0 THEN FloatZero
                         ELSE CurrentScale(current_num_blocks, src_num_blocks)
        js == [i \in 1..current_num_blocks |->
                  SourceLutIndex(self.is_hdr, current_scale, i - 1,
                                 current_dest_lut[i][2])] \o <<>>
        completed ==
            IF \A i \in 1..current_num_blocks : js[i] < src_num_blocks
            THEN current_num_blocks
            ELSE (CHOOSE i \in 1..current_num_blocks :
                     /\ js[i] >= src_num_blocks
                     /\ \A h \in 1..(i - 1) : js[h] < src_num_blocks) - 1
        failed == current_num_blocks = 0 \/ completed < current_num_blocks
        inherits == [i \in 1..completed |->
                        InheritsSkip(self.last_skip_list, current_dest_lut[i][1],
                                     current_cols)] \o <<>>
        iterations == [i \in 1..completed |-> i] \o <<>>
        Appends(i) == AppendsToSkipList(inherits[i], current_dest_lut[i][3],
                                        current_threshold)
        Continues(i) == ~inherits[i]
        appending == SelectSeq(iterations, Appends)
        pasting == SelectSeq(iterations, Continues)
        skip_list == [k \in 1..Len(appending) |->
                         current_dest_lut[appending[k]][1]] \o <<>>
        tested == [k \in 1..Len(pasting) |->
                      current_dest_lut[pasting[k]][1]] \o <<>>
        draws_per_block == IF InAtype("c", self.atype) THEN 0 ELSE 1
        pastes == [k \in 1..Len(pasting) |->
                      PastedBlock(self, source, current_dest, pasting[k],
                                  js[pasting[k]],
                                  DrawAt(self.draw_offset,
                                         self.draws_used + k - 1))] \o <<>>
    IN [self EXCEPT
           !.phase = IF failed THEN "error"
                     ELSE IF self.p + 1 = self.num_passes THEN "done"
                     ELSE "pass",
           !.p = IF failed THEN self.p ELSE self.p + 1,
           !.last_skip_list = IF failed THEN self.last_skip_list
                              ELSE NextLastSkipList(self.last_skip_list, skip_list),
           !.pass_log = Append(self.pass_log,
                               [p |-> self.p, consulted |-> self.last_skip_list]),
           !.draws_used = self.draws_used + draws_per_block * Len(pasting),
           !.skip_lists = IF failed THEN self.skip_lists
                          ELSE Append(self.skip_lists, skip_list),
           !.tested = Append(self.tested, tested),
           !.pastes = Append(self.pastes, pastes)]

(***************************************************************************)
(* Spec: one run for one algorithm string.  The source image and the       *)
(* destination images come partitioned, averaged and with their lookup     *)
(* tables; an OutputImage is made and build_image runs pass by pass.       *)
(***************************************************************************)
MaxDestCells == 2

\* The block sizes asked for: the passes use S, S / 2 and S / 4.
BlockSizeChoices == {4}

\* The algorithm strings of the runs: one channel, color-only.
RunAtypeChoices == {<<"l">>, <<"c">>}

\* (med_threshold, small_threshold)
ThresholdChoices == {<<3, 1>>}

DrawOffsetChoices == {0, 2}

\* The source rasters' blocks: two samples, the darker first.
SourcePatterns(max_value) ==
    {pattern \in SamplePatterns(max_value) : pattern[1].l < pattern[2].l}

\* The destination rasters' blocks: two samples, the more varied last.
DestPatterns(max_value) ==
    {pattern \in SamplePatterns(max_value) :
        pattern[1].variance <= pattern[2].variance}

\* The same draw at every boundary of an axis
SameDraws(count, draw) == [k \in 1..(count + 1) |-> draw] \o <<>>

\* A destination image made ready: calculate_block_vars with the overrides,
\* build_average_list with the run's max_value, build_average_lut.
ReadyDest(width, height, is_non_uniform, is_detail, user_block_size, width_override, height_override, draw, max_value, pattern, atype) ==
    LET new == NewSourceImage(width, height, is_non_uniform, is_detail)
        parted == CalculateBlockVars(new, user_block_size, width_override,
                      height_override,
                      SameDraws(DestRows(new, user_block_size, width_override,
                                         height_override), draw),
                      SameDraws(DestCols(new, user_block_size, width_override,
                                         height_override), draw))
        averaged == BuildAverageList(parted, max_value,
                                     BlockSamples(pattern, parted.num_blocks))
    IN BuildAverageLut(averaged, atype)

\* The source image made ready: 256 blocks at most is the aim, max_value is
\* not used by the source's own calls before its block count is known.
ReadySource(width, height, pattern_of, atype) ==
    LET parted == CalcBlockVarsSource(NewSourceImage(width, height, FALSE, FALSE))
        max_value == parted.num_blocks - 1
        averaged == BuildAverageList(parted, max_value,
                        BlockSamples(pattern_of[max_value], parted.num_blocks))
    IN BuildAverageLut(averaged, atype)

NoImage == [phase |-> "none"]

\* The images of a run made ready: the source raster is src_width x
\* src_height, the algorithm string one of atypes, --detail one of details.
InitRun(src_width, src_height, atypes, details) ==
    \E atype \in atypes, S \in BlockSizeChoices,
       is_detail \in details, is_non_uniform \in BOOLEAN,
       cols \in 1..MaxDestCells, rows \in 1..MaxDestCells :
      LET src_blocks == CalcBlockVarsSource(
                            NewSourceImage(src_width, src_height,
                                           FALSE, FALSE)).num_blocks
          max_value == src_blocks - 1
          width == cols * S + 1
          height == rows * S
      IN \E src_pattern \in SourcePatterns(max_value),
            pattern \in DestPatterns(max_value),
            lowest \in (IF is_non_uniform THEN BOOLEAN ELSE {FALSE}) :
           LET draw == IF lowest THEN OffsetLower(S) ELSE OffsetUpper(S)
               draw_med == IF lowest THEN OffsetLower(S \div 2)
                           ELSE OffsetUpper(S \div 2)
               draw_high == OffsetUpper(S \div 4)
               dest == ReadyDest(width, height, is_non_uniform, is_detail, S,
                                 0, 0, draw, max_value, pattern, atype)
               med == ReadyDest(width, height, is_non_uniform, is_detail,
                                S \div 2, dest.num_cols * S, dest.num_rows * S,
                                draw_med, max_value, pattern, atype)
               high == ReadyDest(width, height, is_non_uniform, is_detail,
                                 S \div 4, dest.num_cols * S, dest.num_rows * S,
                                 draw_high, max_value, pattern, atype)
           IN /\ dest.phase = "lut"
              /\ is_detail => (med.phase = "lut" /\ high.phase = "lut")
              /\ source_image = ReadySource(src_width, src_height,
                                    [mv \in {max_value} |-> src_pattern], atype)
              /\ dest_image = dest
              /\ dest_med = IF is_detail THEN med ELSE NoImage
              /\ dest_high = IF is_detail THEN high ELSE NoImage
              /\ output = [phase |-> "none"]
              /\ grid = Unused
              /\ hdrrun = Unused

Init == InitRun(SrcRasterSide, SrcRasterSide, RunAtypeChoices, BOOLEAN)

\* output = OutputImage(args, user_block_size, atype, is_hdr)
MakeOutputImage ==
    /\ output.phase = "none"
    /\ \E thresholds \in ThresholdChoices, is_hdr \in BOOLEAN :
          output' = NewOutputImage(thresholds[1], thresholds[2],
                                   dest_image.is_non_uniform, dest_image.is_detail,
                                   dest_image.user_block_size,
                                   source_image.atype, is_hdr)
    /\ UNCHANGED <<grid, hdrrun, source_image, dest_image, dest_med, dest_high>>

\* build_image is entered
StartBuildImage ==
    /\ output.phase = "new"
    /\ \E draw_offset \in DrawOffsetChoices :
          output' = BuildImageStart(output, dest_image, draw_offset)
    /\ UNCHANGED <<grid, hdrrun, source_image, dest_image, dest_med, dest_high>>

\* temp_list[p]['dest_image']
PassImage(p) ==
    IF p = 0 THEN dest_image ELSE IF p = 1 THEN dest_med ELSE dest_high

\* one pass of build_image
RunPass ==
    /\ output.phase = "pass"
    /\ output' = BuildImagePass(output, source_image, PassImage(output.p))
    /\ UNCHANGED <<grid, hdrrun, source_image, dest_image, dest_med, dest_high>>

Next ==
    \/ MakeOutputImage
    \/ StartBuildImage
    \/ RunPass

Spec == Init /\ [][Next]_vars

\* The avg (score) of the block with index idx in a lookup table
AvgOf(lut, idx) ==
    lut[CHOOSE k \in 1..Len(lut) : lut[k][1] = idx][2]

\* idx is one of the elements of list
InList(idx, list) == \E k \in 1..Len(list) : list[k] = idx

\* idx is the destination index of one of the pasted blocks
InPastes(idx, pastes) == \E k \in 1..Len(pastes) : pastes[k].dest_idx = idx

\* build_image has been entered
InBuildImage == output.phase \in {"pass", "done", "error"}

C9_InheritedSkip ==
    InBuildImage =>
        \A q \in 2..Len(output.skip_lists) :
           \A k \in 1..Len(PassImage(q - 1).avg_lut) :
              LET dest_idx == PassImage(q - 1).avg_lut[k][1]
              IN InList(OuterIdx(dest_idx, PassImage(q - 1).num_cols),
                        output.skip_lists[q - 1])
                    => /\ ~InPastes(dest_idx, output.pastes[q])
                       /\ ~InList(dest_idx, output.tested[q])
                       /\ InList(dest_idx, output.skip_lists[q])

\* C9 witness: the run is done, and both after the first and after the
\* second pass some block had its outer block in the skip list while another
\* block of the same pass had not.
C9_Witness ==
    /\ output.phase = "done"
    /\ output.is_detail
    /\ \A q \in 2..3 :
          /\ \E k \in 1..Len(PassImage(q - 1).avg_lut) :
                InList(OuterIdx(PassImage(q - 1).avg_lut[k][1],
                                PassImage(q - 1).num_cols),
                       output.skip_lists[q - 1])
          /\ Len(output.pastes[q]) > 0

\* C10: in every pass, a block that has no inherited skip and whose variance
\* is below the threshold of the pass is in the skip list of the pass and is
\* pasted in that pass.
C10_VarianceSkipStillPasted ==
    InBuildImage =>
        \A q \in 1..Len(output.skip_lists) :
           \A k \in 1..Len(PassImage(q - 1).avg_lut) :
              LET dest_idx == PassImage(q - 1).avg_lut[k][1]
                  variance == PassImage(q - 1).avg_lut[k][3]
                  inherited ==
                      /\ q > 1
                      /\ InList(OuterIdx(dest_idx, PassImage(q - 1).num_cols),
                                output.skip_lists[q - 1])
              IN (~inherited /\ variance < CurrentThreshold(output, q - 1))
                    => /\ InList(dest_idx, output.skip_lists[q])
                       /\ InPastes(dest_idx, output.pastes[q])

\* C10 witness: in the second pass a block without an inherited skip has its
\* variance below the threshold, while another block of the pass inherits.
C10_Witness ==
    /\ InBuildImage
    /\ Len(output.skip_lists) >= 2
    /\ \E k \in 1..Len(dest_med.avg_lut) :
          /\ ~InList(OuterIdx(dest_med.avg_lut[k][1], dest_med.num_cols),
                     output.skip_lists[1])
          /\ dest_med.avg_lut[k][3] < CurrentThreshold(output, 1)
          /\ InPastes(dest_med.avg_lut[k][1], output.pastes[2])
    /\ \E k \in 1..Len(dest_med.avg_lut) :
          InList(OuterIdx(dest_med.avg_lut[k][1], dest_med.num_cols),
                 output.skip_lists[1])

\* C11: a detail run makes the passes 0, 1, 2 in that order and a non-detail
\* run pass 0 only; pass 0 tests no skip list, and every later pass tests
\* exactly the skip list the pass before it completed.
C11_PassesInOrder ==
    InBuildImage =>
        /\ Len(output.pass_log) <= (IF output.is_detail THEN 3 ELSE 1)
        /\ output.phase = "done"
              => Len(output.pass_log) = (IF output.is_detail THEN 3 ELSE 1)
        /\ \A q \in 1..Len(output.pass_log) :
              /\ output.pass_log[q].p = q - 1
              /\ q = 1 => output.pass_log[q].consulted.is_none
              /\ q > 1 => /\ ~output.pass_log[q].consulted.is_none
                          /\ output.pass_log[q].consulted.list
                                 = output.skip_lists[q - 1]

\* C11 witness: a detail run is done, and the skip lists of its first two
\* passes are not empty and differ.
C11_Witness ==
    /\ output.phase = "done"
    /\ output.is_detail
    /\ Len(output.pass_log) = 3
    /\ output.skip_lists[1] # <<>>
    /\ output.skip_lists[2] # <<>>
    /\ output.skip_lists[1] # output.skip_lists[2]

\* The width and height of block dest_idx of a grid, offsets included
BlockExtent(image, dest_idx) ==
    <<BlockBox(image, dest_idx).end_x - BlockBox(image, dest_idx).start_x,
      BlockBox(image, dest_idx).end_y - BlockBox(image, dest_idx).start_y>>

\* C12: on a color-only run every pasted block is a solid tile of exactly
\* the destination block's width and height, of the (r, g, b) stored in the
\* source table entry j it was matched to, and nothing is cropped from the
\* source image.
C12_ColorTile ==
    (InBuildImage /\ InAtype("c", output.atype)) =>
        \A q \in 1..Len(output.pastes) : \A k \in 1..Len(output.pastes[q]) :
            LET paste == output.pastes[q][k]
            IN /\ paste.kind = "color"
               /\ paste.crop = <<>>
               /\ paste.ops = <<>>
               /\ paste.block_size = BlockExtent(PassImage(q - 1), paste.dest_idx)
               /\ paste.rgb = source_image.avg_lut[paste.j + 1][4]

\* C12 witness: a color-only run over a non-uniform grid is done and has
\* pasted a tile that is not black and not of the nominal block size.
C12_Witness ==
    /\ output.phase = "done"
    /\ InAtype("c", output.atype)
    /\ \E k \in 1..Len(output.pastes[1]) :
          /\ output.pastes[1][k].rgb # <<0, 0, 0>>
          /\ output.pastes[1][k].j > 0
          /\ output.pastes[1][k].block_size
                 # <<output.user_block_size, output.user_block_size>>

(***************************************************************************)
(* SpecShape: detail runs over a source raster whose blocks are not        *)
(* square (30 x 32 pixels: 17 rows of 15 blocks, each 2 x 1).              *)
(***************************************************************************)
ShapeRaster == <<30, 32>>

InitShape == InitRun(ShapeRaster[1], ShapeRaster[2], {<<"l">>}, {TRUE})

SpecShape == InitShape /\ [][Next]_vars

\* C13: every block pasted on a run that is not color-only has exactly the
\* width and the height of its destination block, offsets included.
C13_PastedBlockFitsDest ==
    (InBuildImage /\ ~InAtype("c", output.atype)) =>
        \A q \in 1..Len(output.pastes) : \A k \in 1..Len(output.pastes[q]) :
            output.pastes[q][k].block_size
                = BlockExtent(PassImage(q - 1), output.pastes[q][k].dest_idx)

\* C14: on every block cropped from the source the flip draw 0, 1, 2
\* applies nothing, FLIP_LEFT_RIGHT (0), FLIP_TOP_BOTTOM (1) and the rotate
\* draw 0, 1, 2, 3 applies nothing, ROTATE_90 (2), ROTATE_180 (3),
\* ROTATE_270 (4), and nothing else.
C14_RotateDrawRotates ==
    InBuildImage =>
        \A q \in 1..Len(output.pastes) : \A k \in 1..Len(output.pastes[q]) :
            LET paste == output.pastes[q][k]
            IN paste.kind = "crop" =>
                  /\ paste.draw[1] \in 0..2
                  /\ paste.draw[2] \in 0..3
                  /\ paste.ops
                        = (IF paste.draw[1] > 0 THEN <<paste.draw[1] - 1>>
                           ELSE <<>>)
                          \o (IF paste.draw[2] > 0 THEN <<paste.draw[2] + 1>>
                              ELSE <<>>)

(***************************************************************************)
(* SpecTwice: build_image is called a second time on the same OutputImage, *)
(* with the same images and the same stream of draws; first_run keeps what *)
(* the first call pasted and skipped.                                      *)
(***************************************************************************)
InitTwice == InitRun(SrcRasterSide, SrcRasterSide, RunAtypeChoices, BOOLEAN)

\* the second call of build_image
BuildImageAgain ==
    /\ output.phase = "done"
    /\ output.runs = 1
    /\ output' = [BuildImageStart(output, dest_image, output.draw_offset)
                     EXCEPT !.first_run = [skip_lists |-> output.skip_lists,
                                           pastes |-> output.pastes]]
    /\ UNCHANGED <<grid, hdrrun, source_image, dest_image, dest_med, dest_high>>

NextTwice ==
    \/ MakeOutputImage
    \/ StartBuildImage
    \/ RunPass
    \/ BuildImageAgain

SpecTwice == InitTwice /\ [][NextTwice]_vars

MaxLutRaster == 2

\* The flags, in the order they are joined
ToneFlags == <<"l", "h", "s", "v", "r", "g", "b">>

\* itertools.combinations(opts, i) joined: the letters of opts that are in
\* subset, in the order of opts
Combination(opts, subset) ==
    LET Chosen(x) == x \in subset
    IN SelectSeq(opts, Chosen)

\* build_algorithm_list(opts): every non-empty combination of the flags
BuildAlgorithmList(opts) ==
    {Combination(opts, subset) :
        subset \in (SUBSET {opts[k] : k \in 1..Len(opts)}) \ {{}}}

\* The algorithm strings of the tone flags, those of the flags "lc" and
\* "cs", and the empty string.
LutAtypeChoices ==
    BuildAlgorithmList(ToneFlags) \cup BuildAlgorithmList(<<"l", "c">>)
        \cup BuildAlgorithmList(<<"c", "s">>) \cup {<<>>}

InitLut ==
    /\ grid \in {NewSourceImage(wh[1], wh[2], nu, FALSE) :
                    wh \in (1..MaxLutRaster) \X (1..MaxLutRaster),
                    nu \in BOOLEAN}
    /\ hdrrun = Unused
    /\ source_image = Unused
    /\ dest_image = Unused
    /\ dest_med = Unused
    /\ dest_high = Unused
    /\ output = Unused

\* build_average_lut, called once after each build_average_list
LutBuildAverageLut ==
    /\ grid.phase = "averaged"
    /\ \E atype \in LutAtypeChoices : grid' = BuildAverageLut(grid, atype)
    /\ UNCHANGED <<hdrrun, source_image, dest_image, dest_med, dest_high, output>>

NextLut ==
    \/ GridCalculateBlockVars
    \/ GridBuildAverageList
    \/ LutBuildAverageLut

SpecLut == InitLut /\ [][NextLut]_vars

\* The letters of an algorithm string
Letters(atype) == {atype[k] : k \in 1..Len(atype)}

\* The sum of the scaled values of the channels
RECURSIVE ChannelSum(_, _)
ChannelSum(avg_dict, channels) ==
    IF channels = {}
    THEN 0
    ELSE LET x == CHOOSE y \in channels : TRUE
         IN avg_dict[x] + ChannelSum(avg_dict, channels \ {x})

\* C16: for an algorithm string that is a non-empty set of tone flags every
\* lookup table entry is (i, floor(sum of block i's scaled values of the
\* flags / number of flags), block i's variance); for the color-only string
\* it is (i, floor((r + g + b) / 3), variance, (r, g, b)).
C16_LutScore ==
    (grid.phase = "lut" /\ grid.stats_calls = 1) =>
        \A k \in 1..Len(grid.avg_lut) :
            LET tup == grid.avg_lut[k]
                avg_dict == grid.avg_list[tup[1] + 1]
            IN /\ (grid.atype # <<>> /\ "c" \notin Letters(grid.atype)) =>
                     /\ Len(tup) = 3
                     /\ tup[2] = ChannelSum(avg_dict, Letters(grid.atype))
                                    \div Cardinality(Letters(grid.atype))
                     /\ tup[3] = avg_dict.variance
               /\ grid.atype = <<"c">> =>
                     /\ Len(tup) = 4
                     /\ tup[2] = (avg_dict.r + avg_dict.g + avg_dict.b) \div 3
                     /\ tup[3] = avg_dict.variance
                     /\ tup[4] = <<avg_dict.r, avg_dict.g, avg_dict.b>>

\* C16 witness: a table for the flags l and h has an entry whose avg is the
\* sum 255 + 0 halved and rounded down.
C16_Witness ==
    /\ grid.phase = "lut"
    /\ grid.stats_calls = 1
    /\ grid.atype = <<"l", "h">>
    /\ \E k \in 1..Len(grid.avg_lut) :
          /\ grid.avg_lut[k][2] = 127
          /\ grid.avg_list[grid.avg_lut[k][1] + 1].l = 255

\* C18: build_average_lut with c together with a tone flag, or with the
\* empty string, ends in an error and assigns no lookup table.
C18_MixedOrEmptyIsError ==
    (grid.phase = "lut" /\ grid.stats_calls >= 1) =>
        /\ grid.atype # <<>>
        /\ "c" \in Letters(grid.atype) => grid.atype = <<"c">>

(***************************************************************************)
(* SpecStats: build_average_list over the pixels of small destination      *)
(* rasters, with max_value the block count less one of a source image.     *)
(***************************************************************************)
MaxStatsRaster == 2

\* The source rasters whose block counts give max_value: a square one, and
\* one of a single column (471 rows of 1 block).
StatsSourceRasters == {<<SrcRasterSide, SrcRasterSide>>, <<1, 865>>}

StatsMaxValues ==
    {CalcBlockVarsSource(NewSourceImage(wh[1], wh[2], FALSE, FALSE)).num_blocks - 1 :
        wh \in StatsSourceRasters}

\* The (r, g, b) of the pixels
Palette ==
    {<<0, 0, 0>>, <<255, 255, 255>>, <<255, 0, 1>>, <<10, 200, 30>>, <<3, 7, 250>>}

\* block.getcolors() of a block of size pixels: all of the first color of
\* the pattern, but for one pixel of the second.
BlockColors(pattern, size) ==
    IF pattern[1] = pattern[2] \/ size = 1
    THEN <<[count |-> size, rgb |-> pattern[1]]>>
    ELSE <<[count |-> 1, rgb |-> pattern[2]],
           [count |-> size - 1, rgb |-> pattern[1]]>>

InitStats ==
    /\ grid \in {NewSourceImage(wh[1], wh[2], nu, FALSE) :
                    wh \in (1..MaxStatsRaster) \X (1..MaxStatsRaster),
                    nu \in BOOLEAN}
    /\ hdrrun = Unused
    /\ source_image = Unused
    /\ dest_image = Unused
    /\ dest_med = Unused
    /\ dest_high = Unused
    /\ output = Unused

\* build_average_list(max_value) on the pixels of the raster: the blocks
\* before the first one of no pixels are measured.
StatsBuildAverageList ==
    /\ grid.phase = "partitioned"
    /\ \E max_value \in StatsMaxValues, pattern \in Palette \X Palette :
          grid' = BuildAverageList(grid, max_value,
                      [k \in 1..BlocksAveraged(grid) |->
                          BlockAvgDict(
                              BlockColors(pattern, CurrentBlockSize(grid, k - 1)),
                              CurrentBlockSize(grid, k - 1), max_value)] \o <<>>)
    /\ UNCHANGED <<hdrrun, source_image, dest_image, dest_med, dest_high, output>>

NextStats ==
    \/ GridCalculateBlockVars
    \/ StatsBuildAverageList

SpecStats == InitStats /\ [][NextStats]_vars

\* C17: after build_average_list(max_value) each of l, h, s, v, r, g, b of
\* every avg_dict is an integer in 0..max_value and variance is an integer
\* in 0..10.
C17_ScaledWithinMaxValue ==
    grid.phase = "averaged" =>
        \A k \in 1..Len(grid.avg_list) :
            /\ \A x \in {"l", "h", "s", "v", "r", "g", "b"} :
                  grid.avg_list[k][x] \in 0..grid.max_value
            /\ grid.avg_list[k].variance \in 0..10

\* C19: on a non-uniform grid partitioned with a block size S >= 1 every
\* block build_average_list crops has a width and a height above zero,
\* whatever offsets were drawn.
C19_NoEmptyBlock ==
    (grid.stats_calls >= 1 /\ grid.user_block_size >= 1 /\ grid.is_non_uniform) =>
        \A i \in 0..(grid.num_blocks - 1) :
            /\ BlockExtent(grid, i)[1] > 0
            /\ BlockExtent(grid, i)[2] > 0

(***************************************************************************)
(* SpecOverride: calculate_block_vars on destination images with every     *)
(* pair of overrides, 0 standing for an override not given.                *)
(***************************************************************************)
MaxOverrideRaster == 3
MaxOverride == 3

InitOverride ==
    /\ grid \in {NewSourceImage(wh[1], wh[2], nu, FALSE) :
                    wh \in (1..MaxOverrideRaster) \X (1..MaxOverrideRaster),
                    nu \in BOOLEAN}
    /\ hdrrun = Unused
    /\ source_image = Unused
    /\ dest_image = Unused
    /\ dest_med = Unused
    /\ dest_high = Unused
    /\ output = Unused

\* calculate_block_vars(user_block_size, width_override, height_override)
OverrideCalculateBlockVars ==
    /\ grid.phase = "new"
    /\ \E S \in 1..MaxBlockSize, width_override \in 0..MaxOverride, height_override \in 0..MaxOverride :
          /\ DestCols(grid, S, width_override, height_override) <= MaxGridCells
          /\ DestRows(grid, S, width_override, height_override) <= MaxGridCells
          /\ \E row_draws \in OffsetDraws(grid, S, DestRows(grid, S, width_override, height_override)),
                col_draws \in OffsetDraws(grid, S, DestCols(grid, S, width_override, height_override)) :
                grid' = CalculateBlockVars(grid, S, width_override,
                                           height_override, row_draws, col_draws)
    /\ UNCHANGED <<hdrrun, source_image, dest_image, dest_med, dest_high, output>>

NextOverride == OverrideCalculateBlockVars

SpecOverride == InitOverride /\ [][NextOverride]_vars

\* C20: on a destination image each override stands in for its own side:
\* num_cols is width_override / S when width_override > 0 and width / S
\* otherwise, num_rows is height_override / S when height_override > 0 and
\* height / S otherwise, also when only one override is given.
C20_OverridesIndependent ==
    (grid.phase = "partitioned" /\ grid.user_block_size > 0) =>
        /\ grid.num_cols
              = (IF grid.width_override > 0 THEN grid.width_override
                 ELSE grid.width) \div grid.user_block_size
        /\ grid.num_rows
              = (IF grid.height_override > 0 THEN grid.height_override
                 ELSE grid.height) \div grid.user_block_size

(***************************************************************************)
(* SpecAlgs: build_algorithm_list on flag strings of distinct letters.     *)
(***************************************************************************)
\* The flags with the color-only flag
AllFlags == ToneFlags \o <<"c">>

\* The flag strings: the letters of a set of flags in the order of AllFlags,
\* and the tone flags in the reverse order.
OptsChoices ==
    {Combination(AllFlags, subset) : subset \in SUBSET {AllFlags[k] : k \in 1..Len(AllFlags)}}
        \cup {<<"b", "g", "r", "v", "s", "h", "l">>, <<"s", "l", "h">>}

\* itertools.combinations(opts, i), each subset joined into a string: those
\* with the first letter, then those without it.
RECURSIVE Combinations(_, _)
Combinations(opts, i) ==
    IF i = 0 THEN <<<<>>>>
    ELSE IF Len(opts) < i THEN <<>>
    ELSE LET with == Combinations(Tail(opts), i - 1)
         IN [k \in 1..Len(with) |-> <<Head(opts)>> \o with[k]]
                \o Combinations(Tail(opts), i)

\* The mutant of AlgsUpTo: range(1, len(opts)), the longest string left out.
AlgsUpToShort(opts, i) ==
    LET RECURSIVE upto(_)
        upto(n) == IF n = 0 THEN <<>> ELSE upto(n - 1) \o Combinations(opts, n)
    IN upto(IF i = Len(opts) /\ i > 0 THEN i - 1 ELSE i)

\* algs after the passes 1 .. i of the outer loop
AlgsUpTo(opts, i) ==
    LET RECURSIVE upto(_)
        upto(n) == IF n = 0 THEN <<>> ELSE upto(n - 1) \o Combinations(opts, n)
    IN upto(i)

InitAlgs ==
    /\ grid \in {[phase |-> "opts", opts |-> opts, algs |-> <<>>] :
                    opts \in OptsChoices}
    /\ hdrrun = Unused
    /\ source_image = Unused
    /\ dest_image = Unused
    /\ dest_med = Unused
    /\ dest_high = Unused
    /\ output = Unused

\* algs = build_algorithm_list(opts)
CallBuildAlgorithmList ==
    /\ grid.phase = "opts"
    /\ grid' = [grid EXCEPT !.phase = "algs",
                            !.algs = AlgsUpTo(grid.opts, Len(grid.opts)) \o <<>>]
    /\ UNCHANGED <<hdrrun, source_image, dest_image, dest_med, dest_high, output>>

NextAlgs == CallBuildAlgorithmList

SpecAlgs == InitAlgs /\ [][NextAlgs]_vars

\* C21: for n distinct flags build_algorithm_list returns 2^n - 1 strings,
\* no string twice, which are exactly the non-empty subsets of the flags,
\* each with its letters in the order of the input; 127 for l, h, s, v, r,
\* g, b.
C21_AllSubsetsOnce ==
    grid.phase = "algs" =>
        /\ Len(grid.algs) = 2 ^ Len(grid.opts) - 1
        /\ \A j, k \in 1..Len(grid.algs) : grid.algs[j] = grid.algs[k] => j = k
        /\ {grid.algs[k] : k \in 1..Len(grid.algs)}
              = {Combination(grid.opts, subset) :
                    subset \in (SUBSET {grid.opts[k] : k \in 1..Len(grid.opts)}) \ {{}}}
        /\ grid.opts = ToneFlags => Len(grid.algs) = 127

\* C21 witness: the list of the seven tone flags is made; it ends with the
\* string of all seven.
C21_Witness ==
    /\ grid.phase = "algs"
    /\ grid.opts = ToneFlags
    /\ grid.algs[Len(grid.algs)] = ToneFlags
    /\ grid.algs[1] = <<"l">>

\* C22: on a run without --detail, hdr or not, every block index 0 ..
\* num_blocks - 1 of the destination is pasted exactly once, at the top left
\* corner of its block, whatever the thresholds and the variances.
C22_EveryBlockPastedOnce ==
    (InBuildImage /\ ~output.is_detail /\ output.phase # "pass") =>
        /\ Len(output.pastes) = 1
        /\ Len(output.pastes[1]) = dest_image.num_blocks
        /\ \A idx \in 0..(dest_image.num_blocks - 1) :
              \E k \in 1..Len(output.pastes[1]) :
                  /\ output.pastes[1][k].dest_idx = idx
                  /\ output.pastes[1][k].at
                        = <<BlockBox(dest_image, idx).start_x,
                            BlockBox(dest_image, idx).start_y>>

(***************************************************************************)
(* SpecPixels: a run without --detail whose lookup tables come from the    *)
(* pixels: max_value is the source's block count less one for the source   *)
(* and for the destination.                                                *)
(***************************************************************************)
MaxPixelsRaster == 2

PixelsAtypeChoices == {<<"l">>, <<"h">>, <<"h", "s">>, <<"c">>}

\* The avg_dicts build_average_list makes of the blocks of a partitioned
\* image whose blocks show the colors of pattern
PixelSamples(parted, pattern, max_value) ==
    [k \in 1..BlocksAveraged(parted) |->
        BlockAvgDict(BlockColors(pattern, CurrentBlockSize(parted, k - 1)),
                     CurrentBlockSize(parted, k - 1), max_value)] \o <<>>

\* The source image made ready from its pixels: its blocks are of one color
\* or the other of pattern, in turn.
ReadySourcePixels(width, height, pattern, atype) ==
    LET parted == CalcBlockVarsSource(NewSourceImage(width, height, FALSE, FALSE))
        max_value == parted.num_blocks - 1
        one == BlockAvgDict(BlockColors(<<pattern[1], pattern[1]>>, parted.block_size),
                            parted.block_size, max_value)
        other == BlockAvgDict(BlockColors(<<pattern[2], pattern[2]>>, parted.block_size),
                              parted.block_size, max_value)
        averaged == BuildAverageList(parted, max_value,
                        BlockSamples(<<one, other>>, parted.num_blocks))
    IN BuildAverageLut(averaged, atype)

\* A uniform destination image made ready from its pixels
ReadyDestPixels(width, height, user_block_size, max_value, pattern, atype) ==
    LET parted == CalculateBlockVars(NewSourceImage(width, height, FALSE, FALSE),
                                     user_block_size, 0, 0, <<>>, <<>>)
        averaged == BuildAverageList(parted, max_value,
                                     PixelSamples(parted, pattern, max_value))
    IN BuildAverageLut(averaged, atype)

InitPixels ==
    \E atype \in PixelsAtypeChoices, src \in StatsSourceRasters :
       /\ source_image = ReadySourcePixels(src[1], src[2],
                             <<<<0, 0, 0>>, <<255, 255, 255>>>>, atype)
       /\ \E width \in 1..MaxPixelsRaster, height \in 1..MaxPixelsRaster,
             color \in Palette :
             dest_image = ReadyDestPixels(width, height, 1,
                                          source_image.num_blocks - 1,
                                          <<color, color>>, atype)
       /\ dest_med = NoImage
       /\ dest_high = NoImage
       /\ output = [phase |-> "none"]
       /\ grid = Unused
       /\ hdrrun = Unused

SpecPixels == InitPixels /\ [][Next]_vars

\* C26: with every image's statistics scaled to max_value = the source's
\* block count - 1, every avg of the destination's lookup table lies in
\* 0 .. block count - 1, and without hdr build_image reads the source table
\* at j = avg without an IndexError.
C26_ScoreIsSourceIndex ==
    /\ \A k \in 1..Len(dest_image.avg_lut) :
          dest_image.avg_lut[k][2] \in 0..(source_image.num_blocks - 1)
    /\ (InBuildImage /\ ~output.is_hdr) => output.phase # "error"

\* The box of block idx of fine lies within the box of block outer of coarse
BoxWithin(fine, idx, coarse, outer) ==
    /\ BlockBox(coarse, outer).start_x <= BlockBox(fine, idx).start_x
    /\ BlockBox(fine, idx).end_x <= BlockBox(coarse, outer).end_x
    /\ BlockBox(coarse, outer).start_y <= BlockBox(fine, idx).start_y
    /\ BlockBox(fine, idx).end_y <= BlockBox(coarse, outer).end_y

MaxLutCalls == 2

RelutBuildAverageLut ==
    /\ grid.phase \in {"averaged", "lut"}
    /\ grid.lut_calls < MaxLutCalls
    /\ \E atype \in AtypeChoices \cup {<<>>} :
          grid' = [BuildAverageLut(grid, atype)
                      EXCEPT !.lut_calls = grid.lut_calls + 1]
    /\ UNCHANGED <<hdrrun, source_image, dest_image, dest_med, dest_high, output>>

NextRelut ==
    \/ GridCalculateBlockVars
    \/ GridBuildAverageList
    \/ RelutBuildAverageLut

SpecRelut == InitLut /\ [][NextRelut]_vars

\* The fields of a SourceImage build_average_lut is not to change
KeptByLut == {"width", "height", "is_non_uniform", "is_detail", "block_size", "block_width", "block_height", "num_rows", "num_cols", "num_blocks", "row_list", "col_list", "avg_list", "user_block_size", "max_value"}

\* C24: a call of build_average_lut leaves the raster, the grid, the offset
\* lists and avg_list as they were; the table it assigns has num_blocks
\* entries, each made of its block's avg_dict for the new algorithm string,
\* none left of the table before; a call that raises leaves the table too.
C24_LutCallChangesLutOnly ==
    [][grid'.lut_calls # grid.lut_calls =>
          /\ \A field \in KeptByLut : grid'[field] = grid[field]
          /\ grid'.phase = "lut" =>
                /\ Len(grid'.avg_lut) = grid.num_blocks
                /\ \A k \in 1..Len(grid'.avg_lut) :
                      grid'.avg_lut[k]
                          = LutEntry(grid.avg_list[grid'.avg_lut[k][1] + 1],
                                     grid'.avg_lut[k][1], grid'.atype)
          /\ grid'.phase = "error" => grid'.avg_lut = grid.avg_lut]_vars

\* C24 witness: a second call has replaced a table of an image of four
\* blocks by the table of another algorithm string.
C24_Witness ==
    /\ grid.phase = "lut"
    /\ grid.lut_calls = 2
    /\ grid.num_blocks = 4
    /\ grid.atype = <<"c">>
    /\ \E k \in 1..4 : grid.avg_lut[k][2] > 0

(***************************************************************************)
(* SpecHsv: rgb_to_hsv on colors whose channels are near 0 or near 255.    *)
(***************************************************************************)
MaxLowChannel == 3

\* The values of a channel: 0 .. MaxLowChannel and 255 - MaxLowChannel .. 255
ChannelValues == (0..MaxLowChannel) \cup ((255 - MaxLowChannel)..255)

InitHsv ==
    /\ grid \in {[phase |-> "rgb", r |-> r, g |-> g, b |-> b, hsv |-> <<>>] :
                    r \in ChannelValues, g \in ChannelValues, b \in ChannelValues}
    /\ hdrrun = Unused
    /\ source_image = Unused
    /\ dest_image = Unused
    /\ dest_med = Unused
    /\ dest_high = Unused
    /\ output = Unused

\* h, s, v = utils.rgb_to_hsv(r, g, b)
CallRgbToHsv ==
    /\ grid.phase = "rgb"
    /\ grid' = [grid EXCEPT !.phase = "hsv",
                            !.hsv = RgbToHsv(grid.r, grid.g, grid.b)]
    /\ UNCHANGED <<hdrrun, source_image, dest_image, dest_med, dest_high, output>>

NextHsv == CallRgbToHsv

SpecHsv == InitHsv /\ [][NextHsv]_vars

\* x < y for floats
FloatLess(x, y) ==
    IF y.bits = <<>> THEN FALSE
    ELSE IF x.bits = <<>> THEN TRUE
    ELSE IF x.exp # y.exp THEN x.exp < y.exp
    ELSE \E k \in 1..MantBits :
            /\ x.bits[k] < y.bits[k]
            /\ \A h \in 1..(k - 1) : x.bits[h] = y.bits[h]

\* The hue the branch of a channel gives, in degrees: (g - b) / delta from
\* r, 2 + (b - r) / delta from g, 4 + (r - g) / delta from b, times 60.0,
\* plus 360.0 when below zero.
HueOfBranch(channel, r, g, b) ==
    LET max_rgb == IF r >= g /\ r >= b THEN r ELSE IF g >= b THEN g ELSE b
        min_rgb == IF r <= g /\ r <= b THEN r ELSE IF g <= b THEN g ELSE b
        delta == max_rgb - min_rgb
        offset == IF channel = "r" THEN 0 ELSE IF channel = "g" THEN 2 ELSE 4
        x == IF channel = "r" THEN g ELSE IF channel = "g" THEN b ELSE r
        y == IF channel = "r" THEN b ELSE IF channel = "g" THEN r ELSE g
    IN IF x >= y
       THEN FloatMulInt(FloatAdd(FloatOfInt(offset), FloatDiv(x - y, delta)), 60)
       ELSE IF offset = 0
       THEN FloatSub(FloatOfInt(360), FloatMulInt(FloatDiv(y - x, delta), 60))
       ELSE FloatMulInt(FloatSub(FloatOfInt(offset), FloatDiv(y - x, delta)), 60)

\* C25: rgb_to_hsv returns h in [0, 360), s in [0, 1] and v = max(r, g, b);
\* h is 0 when max = min, s too when r = g = b = 0; when two channels are
\* both the maximum, h is what the branch of either gives.
C25_HsvRanges ==
    grid.phase = "hsv" =>
        LET max_rgb == CHOOSE m \in {grid.r, grid.g, grid.b} :
                           \A c \in {grid.r, grid.g, grid.b} : c <= m
            min_rgb == CHOOSE m \in {grid.r, grid.g, grid.b} :
                           \A c \in {grid.r, grid.g, grid.b} : m <= c
        IN /\ FloatLess(grid.hsv.h, FloatOfInt(360))
           /\ ~FloatLess(FloatOfInt(1), grid.hsv.s)
           /\ grid.hsv.v = FloatOfInt(max_rgb)
           /\ max_rgb = min_rgb => grid.hsv.h = FloatZero
           /\ max_rgb = 0 => grid.hsv.s = FloatZero
           /\ max_rgb > min_rgb =>
                 \A channel \in {"r", "g", "b"} :
                     grid[channel] = max_rgb =>
                         grid.hsv.h = HueOfBranch(channel, grid.r, grid.g, grid.b)

\* C25 witness: the hsv of a color whose r and b are both the maximum, its
\* hue above 180 degrees.
C25_Witness ==
    /\ grid.phase = "hsv"
    /\ grid.r = grid.b
    /\ grid.g < grid.r
    /\ FloatLess(FloatOfInt(180), grid.hsv.h)

\* The rectangle a paste covers meets the box of block idx of image
PasteMeetsBox(paste, image, idx) ==
    /\ paste.at[1] < BlockBox(image, idx).end_x
    /\ BlockBox(image, idx).start_x < paste.at[1] + paste.block_size[1]
    /\ paste.at[2] < BlockBox(image, idx).end_y
    /\ BlockBox(image, idx).start_y < paste.at[2] + paste.block_size[2]

\* C27: on uniform grids, each finer one with twice the rows and columns, a
\* block in the skip list of pass 0 was pasted in pass 0, none of its four
\* blocks of pass 1 and none of its sixteen blocks of pass 2 is pasted, and
\* no paste of pass 1 or 2 covers a pixel of its box.
C27_SkipIsTransitive ==
    (/\ InBuildImage
     /\ output.is_detail
     /\ ~output.is_non_uniform
     /\ dest_med.num_cols = 2 * dest_image.num_cols
     /\ dest_med.num_rows = 2 * dest_image.num_rows
     /\ dest_high.num_cols = 2 * dest_med.num_cols
     /\ dest_high.num_rows = 2 * dest_med.num_rows
     /\ Len(output.skip_lists) >= 1) =>
        \A c \in 0..(dest_image.num_blocks - 1) :
            InList(c, output.skip_lists[1]) =>
                /\ InPastes(c, output.pastes[1])
                /\ Len(output.pastes) >= 2 =>
                      \A k \in 1..Len(output.pastes[2]) :
                          /\ OuterIdx(output.pastes[2][k].dest_idx,
                                      dest_med.num_cols) # c
                          /\ ~PasteMeetsBox(output.pastes[2][k], dest_image, c)
                /\ Len(output.pastes) >= 3 =>
                      \A k \in 1..Len(output.pastes[3]) :
                          /\ OuterIdx(OuterIdx(output.pastes[3][k].dest_idx,
                                               dest_high.num_cols),
                                      dest_med.num_cols) # c
                          /\ ~PasteMeetsBox(output.pastes[3][k], dest_image, c)

\* C27 witness: a detail run on uniform grids is done; pass 0 put some block
\* but not every block on its skip list, and pass 2 pasted blocks, fewer
\* than the finest grid has.
C27_Witness ==
    /\ output.phase = "done"
    /\ output.is_detail
    /\ ~output.is_non_uniform
    /\ dest_high.num_blocks = 16 * dest_image.num_blocks
    /\ output.skip_lists[1] # <<>>
    /\ Len(output.skip_lists[1]) < dest_image.num_blocks
    /\ Len(output.pastes[3]) > 0
    /\ Len(output.pastes[3]) < dest_high.num_blocks

(***************************************************************************)
(* SpecBoth: the build_image of src/rebuilderutils.py and the one of       *)
(* src/lib/image.py run on the same images with the same draws.  output is *)
(* the OutputImage of lib/image.py, grid the one of rebuilderutils.py.     *)
(***************************************************************************)
\* The mutant of InheritsSkipTruthy: a list of one index counts as empty.
InheritsSkipOfLongList(last_skip_list, dest_idx, current_cols) ==
    /\ Len(last_skip_list.list) > 1
    /\ \E k \in 1..Len(last_skip_list.list) :
          last_skip_list.list[k] = OuterIdx(dest_idx, current_cols)

\* rebuilderutils.py: if last_skip_list: ... outeridx in last_skip_list.
\* None and the empty list are both false.
InheritsSkipTruthy(last_skip_list, dest_idx, current_cols) ==
    /\ ~last_skip_list.is_none /\ last_skip_list.list # <<>>
    /\ \E k \in 1..Len(last_skip_list.list) :
          last_skip_list.list[k] = OuterIdx(dest_idx, current_cols)

\* One pass of the loop over the passes of rebuilderutils.py, lines 390 to
\* 522: the pass of lib/image.py but for the test of last_skip_list.
RebuilderutilsBuildImagePass(self, source, current_dest) ==
    LET current_dest_lut == current_dest.avg_lut
        current_num_blocks == Len(current_dest_lut)
        src_num_blocks == Len(source.avg_lut)
        current_threshold == CurrentThreshold(self, self.p)
        current_cols == current_dest.num_cols
        current_scale == IF current_num_blocks = 0 THEN FloatZero
                         ELSE CurrentScale(current_num_blocks, src_num_blocks)
        js == [i \in 1..current_num_blocks |->
                  SourceLutIndex(self.is_hdr, current_scale, i - 1,
                                 current_dest_lut[i][2])] \o <<>>
        completed ==
            IF \A i \in 1..current_num_blocks : js[i] < src_num_blocks
            THEN current_num_blocks
            ELSE (CHOOSE i \in 1..current_num_blocks :
                     /\ js[i] >= src_num_blocks
                     /\ \A h \in 1..(i - 1) : js[h] < src_num_blocks) - 1
        failed == current_num_blocks = 0 \/ completed < current_num_blocks
        inherits == [i \in 1..completed |->
                        InheritsSkipTruthy(self.last_skip_list,
                                           current_dest_lut[i][1], current_cols)] \o <<>>
        iterations == [i \in 1..completed |-> i] \o <<>>
        Appends(i) == AppendsToSkipList(inherits[i], current_dest_lut[i][3],
                                        current_threshold)
        Continues(i) == ~inherits[i]
        appending == SelectSeq(iterations, Appends)
        pasting == SelectSeq(iterations, Continues)
        skip_list == [k \in 1..Len(appending) |->
                         current_dest_lut[appending[k]][1]] \o <<>>
        tested == [k \in 1..Len(pasting) |->
                      current_dest_lut[pasting[k]][1]] \o <<>>
        draws_per_block == IF InAtype("c", self.atype) THEN 0 ELSE 1
        pastes == [k \in 1..Len(pasting) |->
                      PastedBlock(self, source, current_dest, pasting[k],
                                  js[pasting[k]],
                                  DrawAt(self.draw_offset,
                                         self.draws_used + k - 1))] \o <<>>
    IN [self EXCEPT
           !.phase = IF failed THEN "error"
                     ELSE IF self.p + 1 = self.num_passes THEN "done"
                     ELSE "pass",
           !.p = IF failed THEN self.p ELSE self.p + 1,
           !.last_skip_list = IF failed THEN self.last_skip_list
                              ELSE NextLastSkipList(self.last_skip_list, skip_list),
           !.pass_log = Append(self.pass_log,
                               [p |-> self.p, consulted |-> self.last_skip_list]),
           !.draws_used = self.draws_used + draws_per_block * Len(pasting),
           !.skip_lists = IF failed THEN self.skip_lists
                          ELSE Append(self.skip_lists, skip_list),
           !.tested = Append(self.tested, tested),
           !.pastes = Append(self.pastes, pastes)]

\* The algorithm string of the runs: blocks are cropped, flipped and rotated
BothAtypeChoices == {<<"l">>}

InitBoth == InitRun(SrcRasterSide, SrcRasterSide, BothAtypeChoices, {TRUE})

\* (med_threshold, small_threshold): a block may pass the test of pass 0 and
\* fail the one of pass 1
BothThresholdChoices == {<<1, 3>>}

\* OutputImage(args, user_block_size, atype, is_hdr) of both modules, with
\* the same arguments
MakeBothOutputImages ==
    /\ output.phase = "none"
    /\ \E thresholds \in BothThresholdChoices, is_hdr \in BOOLEAN :
          /\ output' = NewOutputImage(thresholds[1], thresholds[2],
                                      dest_image.is_non_uniform,
                                      dest_image.is_detail,
                                      dest_image.user_block_size,
                                      source_image.atype, is_hdr)
          /\ grid' = output'
    /\ UNCHANGED <<hdrrun, source_image, dest_image, dest_med, dest_high>>

\* build_image is entered in both, at the same place of the stream of draws
StartBothBuildImage ==
    /\ output.phase = "new"
    /\ \E draw_offset \in DrawOffsetChoices :
          /\ output' = BuildImageStart(output, dest_image, draw_offset)
          /\ grid' = BuildImageStart(grid, dest_image, draw_offset)
    /\ UNCHANGED <<hdrrun, source_image, dest_image, dest_med, dest_high>>

\* one pass of the build_image of lib/image.py, run once the other
\* build_image has made the passes before it
RunPassImage ==
    /\ output.phase = "pass"
    /\ grid.phase = "pass"
    /\ grid.p = output.p
    /\ output' = BuildImagePass(output, source_image, PassImage(output.p))
    /\ UNCHANGED <<grid, hdrrun, source_image, dest_image, dest_med, dest_high>>

\* one pass of the build_image of rebuilderutils.py, run once the other
\* build_image has made the pass or has ended
RunPassRebuilderutils ==
    /\ output.phase \in {"pass", "done", "error"}
    /\ grid.phase = "pass"
    /\ output.phase = "pass" => grid.p < output.p
    /\ grid' = RebuilderutilsBuildImagePass(grid, source_image, PassImage(grid.p))
    /\ UNCHANGED <<output, hdrrun, source_image, dest_image, dest_med, dest_high>>

NextBoth ==
    \/ MakeBothOutputImages
    \/ StartBothBuildImage
    \/ RunPassImage
    \/ RunPassRebuilderutils

SpecBoth == InitBoth /\ [][NextBoth]_vars

\* C28: the two build_image paste the same blocks in the same way and make
\* the same skip list in every pass both have made, test the same blocks,
\* and when both have made as many passes they are in the same state.
C28_SameAsRebuilderutils ==
    (InBuildImage /\ grid.phase \in {"pass", "done", "error"}) =>
        /\ \A q \in 1..Len(output.pastes) :
              q <= Len(grid.pastes) =>
                  /\ output.pastes[q] = grid.pastes[q]
                  /\ output.tested[q] = grid.tested[q]
        /\ \A q \in 1..Len(output.skip_lists) :
              q <= Len(grid.skip_lists) =>
                  output.skip_lists[q] = grid.skip_lists[q]
        /\ Len(output.pass_log) = Len(grid.pass_log) =>
              /\ output.phase = grid.phase
              /\ output.last_skip_list = grid.last_skip_list
              /\ output.skip_lists = grid.skip_lists

\* C28 witness: both runs are done with three passes; pass 0 left its skip
\* list empty, pass 1 put blocks on its own, and pass 2 skipped some blocks
\* and pasted others.
C28_Witness ==
    /\ output.phase = "done"
    /\ grid.phase = "done"
    /\ Len(grid.skip_lists) = 3
    /\ grid.skip_lists[1] = <<>>
    /\ grid.skip_lists[2] # <<>>
    /\ Len(grid.pastes[3]) > 0
    /\ Len(grid.pastes[3]) < dest_high.num_blocks

(***************************************************************************)
(* SpecTiling: calculate_block_vars on destination images of up to four    *)
(* rows and columns, with no overrides or with the extent of the grid of   *)
(* twice the block size as overrides.                                      *)
(***************************************************************************)
MaxTilingRaster == 9
MaxTilingCells == 4

InitTiling ==
    /\ grid \in {NewSourceImage(wh[1], wh[2], nu, FALSE) :
                    wh \in (1..MaxTilingRaster) \X (1..MaxTilingRaster),
                    nu \in BOOLEAN}
    /\ hdrrun = Unused
    /\ source_image = Unused
    /\ dest_image = Unused
    /\ dest_med = Unused
    /\ dest_high = Unused
    /\ output = Unused

\* The overrides the images of the detail passes are given: the extent of
\* the grid of block size 2 * S on the same raster.
CoarserExtent(self, user_block_size) ==
    <<(self.width \div (2 * user_block_size)) * (2 * user_block_size),
      (self.height \div (2 * user_block_size)) * (2 * user_block_size)>>

\* calculate_block_vars(user_block_size) and
\* calculate_block_vars(user_block_size, width_override, height_override)
TilingCalculateBlockVars ==
    /\ grid.phase = "new"
    /\ \E S \in 1..MaxBlockSize :
       \E over \in {<<0, 0>>, CoarserExtent(grid, S)} :
          /\ DestCols(grid, S, over[1], over[2]) <= MaxTilingCells
          /\ DestRows(grid, S, over[1], over[2]) <= MaxTilingCells
          /\ \E row_draws \in OffsetDraws(grid, S, DestRows(grid, S, over[1], over[2])),
                col_draws \in OffsetDraws(grid, S, DestCols(grid, S, over[1], over[2])) :
                grid' = CalculateBlockVars(grid, S, over[1], over[2],
                                           row_draws, col_draws)
    /\ UNCHANGED <<hdrrun, source_image, dest_image, dest_med, dest_high, output>>

NextTiling == TilingCalculateBlockVars

SpecTiling == InitTiling /\ [][NextTiling]_vars

\* Some pixel lies in the boxes of both blocks i and k of a grid
BoxesMeet(self, i, k) ==
    /\ BlockBox(self, i).start_x < BlockBox(self, k).end_x
    /\ BlockBox(self, k).start_x < BlockBox(self, i).end_x
    /\ BlockBox(self, i).start_y < BlockBox(self, k).end_y
    /\ BlockBox(self, k).start_y < BlockBox(self, i).end_y
    /\ BlockBox(self, i).start_x < BlockBox(self, i).end_x
    /\ BlockBox(self, i).start_y < BlockBox(self, i).end_y
    /\ BlockBox(self, k).start_x < BlockBox(self, k).end_x
    /\ BlockBox(self, k).start_y < BlockBox(self, k).end_y

\* C29: on a destination-style grid of block size S, uniform or not, the
\* box of a block ends where the box of the next block of its row starts,
\* and likewise down a column; the first boxes start at 0 and the last end
\* at num_cols * S and num_rows * S; no two boxes share a pixel; every box
\* lies within the raster.
C29_BlocksTileTheGrid ==
    (grid.phase = "partitioned" /\ grid.user_block_size > 0) =>
        LET S == grid.user_block_size
            cols == grid.num_cols
            rows == grid.num_rows
            Box(row, col) == BlockBox(grid, row * cols + col)
        IN /\ \A row \in 0..(rows - 1), col \in 0..(cols - 1) :
                 /\ Box(row, col).start_x = (IF col = 0 THEN 0
                                             ELSE Box(row, col - 1).end_x)
                 /\ Box(row, col).start_y = (IF row = 0 THEN 0
                                             ELSE Box(row - 1, col).end_y)
                 /\ col = cols - 1 => Box(row, col).end_x = cols * S
                 /\ row = rows - 1 => Box(row, col).end_y = rows * S
                 /\ Box(row, col).start_x <= Box(row, col).end_x
                 /\ Box(row, col).start_y <= Box(row, col).end_y
                 /\ 0 <= Box(row, col).start_x
                 /\ Box(row, col).end_x <= grid.width
                 /\ 0 <= Box(row, col).start_y
                 /\ Box(row, col).end_y <= grid.height
           /\ \A i \in 0..(grid.num_blocks - 1), k \in 0..(grid.num_blocks - 1) :
                 i # k => ~BoxesMeet(grid, i, k)

\* C29 witness: a non-uniform grid of four columns and four rows, given
\* overrides, whose second and third column boundaries were drawn towards
\* each other as far as the draws go, and whose row boundaries were moved
\* too.
C29_Witness ==
    /\ grid.phase = "partitioned"
    /\ grid.is_non_uniform
    /\ grid.width_override > 0
    /\ grid.num_cols = 4
    /\ grid.num_rows = 4
    /\ grid.col_list[2] = OffsetUpper(grid.user_block_size)
    /\ grid.col_list[3] = OffsetLower(grid.user_block_size)
    /\ grid.row_list[2] < 0
    /\ grid.row_list[4] < 0

\* C30: after any number of calls of build_average_list with the same
\* max_value, avg_list holds exactly num_blocks avg_dicts, and a lookup
\* table built afterwards has num_blocks entries made from them.
C30_AverageListIdempotent ==
    (grid.phase \in {"averaged", "lut"} /\ grid.stats_calls >= 1) =>
        /\ Len(grid.avg_list) = grid.num_blocks
        /\ grid.phase = "lut" => Len(grid.avg_lut) = Len(grid.avg_list)

====
